---- MODULE Spec2Model ----
(***************************************************************************)
(* Model of exec-os-lite: the meal-description nutrition estimator         *)
(* (parseMeal), its formatter and aggregator (formatParsedMeal,            *)
(* calculateTotals), the workout recommender (getRecommendedWorkoutType),  *)
(* the meal form of the diet page (DietPage.handleSubmit), the trip form   *)
(* of the travel page (TravelPage.handleSubmit), the hooks useAuth and     *)
(* useFetch, saveTodaysWorkout, and the meal data-access functions with    *)
(* the row level security policies of public.meals.  Each component has    *)
(* its own variables and its own specification; the variables of the       *)
(* other components rest at their initial values.                          *)
(*                                                                         *)
(* A string is a sequence of characters; a character is a one-element      *)
(* token ("a", "A", " ", "TAB" for U+0009, "U+0131" for the dotless i).    *)
(* Every number the estimator accumulates is a multiple of 0.25 (integer   *)
(* lexicon values times a multiplier from {1,2,3,4,1.5,0.75,0.5}), which   *)
(* IEEE doubles hold exactly, so the running totals are kept in quarter    *)
(* units (names ending in 4).  confidence is kept in tenths.               *)
(***************************************************************************)
EXTENDS Integers, Sequences, FiniteSets, TLC

VARIABLES
  \* one invocation of parseMeal
  pc, mealDescription, result,
  \* one call of formatParsedMeal
  parsed, formatted,
  \* one call of calculateTotals
  tpc, meals, totals,
  \* the invocations of parseMeal that overlap in time
  calls,
  \* the workouts table and one call of getRecommendedWorkoutType
  workouts, signedIn, rpc, recentWorkouts, fetchFailed, recommended,
  \* DietPage: its state, the position of handleSubmit and of the load
  \* started on mount, the meals table, and the calls handleSubmit has made
  mealText, todaysMeals, loading, submitting, error, hpc, mountLoad, table, events,
  \* TravelPage: its state (the page's loading, submitting and error carry
  \* the page's name here), the position of handleSubmit and of the load
  \* started on mount, and the calls of createTrip made so far
  formData, showForm, trips, travelLoading, travelSubmitting, travelError,
  spc, tripLoad, tripCalls,
  \* useAuth: its state, the effect's mounted flag, the position of
  \* getInitialSession, and the sessions of the auth state change events
  \* delivered so far
  authState, mounted, gpc, delivered,
  \* useFetch: its state, the (tableName, filterParams) of the last render,
  \* whether the hook is mounted, and the requests issued so far
  fetchState, fetchParams, fetchMounted, requests,
  \* the calls of saveTodaysWorkout that overlap in time
  saves,
  \* the rows of public.meals and the outcome of the last call of a meal
  \* data-access function
  mealRows, reply

parseVars == <<pc, mealDescription, result>>

formatVars == <<parsed, formatted>>

totalsVars == <<tpc, meals, totals>>

concurrentVars == <<calls>>

workoutVars == <<workouts, signedIn, rpc, recentWorkouts, fetchFailed, recommended>>

dietVars ==
  <<mealText, todaysMeals, loading, submitting, error, hpc, mountLoad, table, events>>

travelVars ==
  <<formData, showForm, trips, travelLoading, travelSubmitting, travelError,
    spc, tripLoad, tripCalls>>

authVars == <<authState, mounted, gpc, delivered>>

fetchVars == <<fetchState, fetchParams, fetchMounted, requests>>

saveVars == <<saves>>

accessVars == <<mealRows, reply>>

vars == <<parseVars, formatVars, totalsVars, concurrentVars, workoutVars, dietVars, travelVars, authVars, fetchVars, saveVars, accessVars>>

\* ---------------------------------------------------------------------
\* Bounds of the explored input space
\* ---------------------------------------------------------------------

\* A description is at most MaxWords phrases of Phrases joined by one space.
MaxWords == 2

\* The phrases descriptions are made of: foods, a quantity word, a food
\* followed by a quantity word after a space and a tab, a word spelt with the
\* dotless i, and filler words (with a double space) that hit no lexicon.
Phrases ==
  << <<"c", "h", "i", "c", "k", "e", "n">>,
     <<"c", "h", "i", "c", "k", "e", "n", " ", "a", "n", "d", " ", "r", "i", "c", "e">>,
     <<"E", "g", "g", "s">>,
     <<"s", "a", "l", "a", "d">>,
     <<"l", "a", "r", "g", "e">>,
     <<"s", "a", "l", "a", "d", " ", "TAB", "t", "w", "o">>,
     <<"c", "o", "f", "f", "e", "e">>,
     <<"b", "r", "o", "c", "c", "o", "l", "i">>,
     <<"c", "h", "U+0131", "c", "k", "e", "n">>,
     <<"a", " ", "b", " ", " ", "d", " ", "h", " ", "j", " ", "q", " ", "v">> >>

\* calculateTotals is called with an array of at most MaxMeals estimates.
MaxMeals == 3

\* At most MaxCalls invocations of parseMeal overlap in time.
MaxCalls == 2

\* The workouts table holds at most MaxWorkouts rows of the user.
MaxWorkouts == 4

\* The meals table holds at most MaxStored rows of the user for today.
MaxStored == 2

\* ---------------------------------------------------------------------
\* JavaScript values
\* ---------------------------------------------------------------------

\* A field of ParsedMeal: a finite number, NaN, or null.
Num(n) == [kind |-> "num", v |-> n]

NaN == [kind |-> "nan", v |-> 0]

Infinity == [kind |-> "inf", v |-> 0]

Null == [kind |-> "null", v |-> 0]

NoResult == [calories |-> Null, protein |-> Null, carbs |-> Null, fat |-> Null,
             confidence |-> 0]

Min(a, b) == IF a <= b THEN a ELSE b

MinOf(S) == CHOOSE x \in S : \A y \in S : x <= y

Abs(x) == IF x < 0 THEN 0 - x ELSE x

\* The element of a one-element set.  Only({e(x) : x \in {v}}) is e(v) with v
\* evaluated once: the form a `const x = v` of the source takes here.
Only(S) == CHOOSE x \in S : TRUE

\* Math.round of q/4 for q >= 0: floor(q/4 + 0.5).
Round4(q) == (q + 2) \div 4

\* Math.round(num/den) for num >= 0, den > 0: floor(num/den + 0.5).
RoundDiv(num, den) == (2 * num + den) \div (2 * den)

\* ---------------------------------------------------------------------
\* Strings
\* ---------------------------------------------------------------------

LowerLetters ==
  <<"a","b","c","d","e","f","g","h","i","j","k","l","m",
    "n","o","p","q","r","s","t","u","v","w","x","y","z">>

UpperLetters ==
  <<"A","B","C","D","E","F","G","H","I","J","K","L","M",
    "N","O","P","Q","R","S","T","U","V","W","X","Y","Z">>

\* String.prototype.toLowerCase, character by character.  U+0131 (dotless i)
\* is already lower case and stays as it is.
ToLowerCaseChar(c) ==
  IF \E i \in 1..26 : UpperLetters[i] = c
  THEN LowerLetters[CHOOSE i \in 1..26 : UpperLetters[i] = c]
  ELSE c

RECURSIVE ToLowerCase(_)
ToLowerCase(s) ==
  IF s = <<>> THEN <<>> ELSE <<ToLowerCaseChar(Head(s))>> \o ToLowerCase(Tail(s))

\* String.prototype.toUpperCase.  The upper case of U+0131 is the ASCII "I".
ToUpperCaseChar(c) ==
  IF \E i \in 1..26 : LowerLetters[i] = c
  THEN UpperLetters[CHOOSE i \in 1..26 : LowerLetters[i] = c]
  ELSE IF c = "U+0131" THEN "I" ELSE c

RECURSIVE ToUpperCase(_)
ToUpperCase(s) ==
  IF s = <<>> THEN <<>> ELSE <<ToUpperCaseChar(Head(s))>> \o ToUpperCase(Tail(s))

\* The characters the regular expression class \s accepts.
IsWhitespace(c) == c \in {" ", "TAB", "LF", "VT", "FF", "CR", "U+00A0", "U+FEFF"}

\* t occurs in s starting at position i.
OccursAt(s, t, i) ==
  \A j \in 1..Len(t) : i + j - 1 \in 1..Len(s) /\ s[i + j - 1] = t[j]

\* String.prototype.includes
Includes(s, t) == \E i \in 1..(Len(s) - Len(t) + 1) : OccursAt(s, t, i)

\* The regular expression  a\s+b  finds a match somewhere in s.
MatchesSeq(s, a, b) ==
  \E i \in 1..Len(s) :
    /\ OccursAt(s, a, i)
    /\ \E k \in 1..(Len(s) - i) :
         /\ \A j \in (i + Len(a))..(i + Len(a) + k - 1) :
              j <= Len(s) /\ IsWhitespace(s[j])
         /\ OccursAt(s, b, i + Len(a) + k)

\* Variant of PatternTest whose pattern has the first alternative only.
PatternTestBefore(quantityWord, food, lowerDesc) ==
  MatchesSeq(lowerDesc, quantityWord, food)

\* new RegExp(`${quantityWord}\\s+${food}|${food}\\s+${quantityWord}`).test(lowerDesc)
PatternTest(quantityWord, food, lowerDesc) ==
  \/ MatchesSeq(lowerDesc, quantityWord, food)
  \/ MatchesSeq(lowerDesc, food, quantityWord)

\* Characters that make `new RegExp(source)` throw or change meaning when
\* they are interpolated unescaped into the pattern source.
RegExpSpecial == {"(", ")", "[", "]", "{", "}", "*", "+", "?", "\\", "|", "^", "$", "."}

\* Variant of SplitLength that counts the non-empty pieces only.
SplitLengthNonEmpty(s) ==
  Cardinality({i \in 1..Len(s) : s[i] # " " /\ (i = 1 \/ s[i - 1] = " ")})

\* mealDescription.split(' ').length : one more than the number of U+0020.
SplitLength(s) == 1 + Cardinality({i \in 1..Len(s) : s[i] = " "})

\* ---------------------------------------------------------------------
\* Lexicons
\* ---------------------------------------------------------------------

mockFoodDatabase ==
  << [food |-> <<"e", "g", "g">>, calories |-> 70, protein |-> 6, carbs |-> 1, fat |-> 5],
     [food |-> <<"e", "g", "g", "s">>, calories |-> 140, protein |-> 12, carbs |-> 2, fat |-> 10],
     [food |-> <<"t", "o", "a", "s", "t">>, calories |-> 75, protein |-> 3, carbs |-> 14, fat |-> 1],
     [food |-> <<"b", "r", "e", "a", "d">>, calories |-> 75, protein |-> 3, carbs |-> 14, fat |-> 1],
     [food |-> <<"b", "u", "t", "t", "e", "r">>, calories |-> 100, protein |-> 0, carbs |-> 0, fat |-> 11],
     [food |-> <<"o", "a", "t", "m", "e", "a", "l">>, calories |-> 150, protein |-> 5, carbs |-> 27, fat |-> 3],
     [food |-> <<"b", "a", "n", "a", "n", "a">>, calories |-> 105, protein |-> 1, carbs |-> 27, fat |-> 0],
     [food |-> <<"a", "p", "p", "l", "e">>, calories |-> 95, protein |-> 0, carbs |-> 25, fat |-> 0],
     [food |-> <<"o", "r", "a", "n", "g", "e">>, calories |-> 62, protein |-> 1, carbs |-> 15, fat |-> 0],
     [food |-> <<"c", "o", "f", "f", "e", "e">>, calories |-> 2, protein |-> 0, carbs |-> 0, fat |-> 0],
     [food |-> <<"m", "i", "l", "k">>, calories |-> 150, protein |-> 8, carbs |-> 12, fat |-> 8],
     [food |-> <<"c", "h", "i", "c", "k", "e", "n">>, calories |-> 165, protein |-> 31, carbs |-> 0, fat |-> 4],
     [food |-> <<"c", "h", "i", "c", "k", "e", "n", " ", "b", "r", "e", "a", "s", "t">>, calories |-> 165, protein |-> 31, carbs |-> 0, fat |-> 4],
     [food |-> <<"r", "i", "c", "e">>, calories |-> 205, protein |-> 4, carbs |-> 45, fat |-> 0],
     [food |-> <<"p", "a", "s", "t", "a">>, calories |-> 220, protein |-> 8, carbs |-> 43, fat |-> 1],
     [food |-> <<"s", "a", "l", "a", "d">>, calories |-> 20, protein |-> 1, carbs |-> 4, fat |-> 0],
     [food |-> <<"s", "a", "n", "d", "w", "i", "c", "h">>, calories |-> 350, protein |-> 15, carbs |-> 35, fat |-> 15],
     [food |-> <<"b", "u", "r", "g", "e", "r">>, calories |-> 540, protein |-> 25, carbs |-> 40, fat |-> 27],
     [food |-> <<"p", "i", "z", "z", "a">>, calories |-> 285, protein |-> 12, carbs |-> 36, fat |-> 10],
     [food |-> <<"s", "t", "e", "a", "k">>, calories |-> 271, protein |-> 25, carbs |-> 0, fat |-> 19],
     [food |-> <<"s", "a", "l", "m", "o", "n">>, calories |-> 208, protein |-> 20, carbs |-> 0, fat |-> 13],
     [food |-> <<"v", "e", "g", "e", "t", "a", "b", "l", "e", "s">>, calories |-> 50, protein |-> 2, carbs |-> 10, fat |-> 0],
     [food |-> <<"b", "r", "o", "c", "c", "o", "l", "i">>, calories |-> 55, protein |-> 4, carbs |-> 11, fat |-> 1],
     [food |-> <<"c", "h", "i", "p", "s">>, calories |-> 150, protein |-> 2, carbs |-> 15, fat |-> 10],
     [food |-> <<"c", "o", "o", "k", "i", "e", "s">>, calories |-> 160, protein |-> 2, carbs |-> 21, fat |-> 8],
     [food |-> <<"y", "o", "g", "u", "r", "t">>, calories |-> 100, protein |-> 10, carbs |-> 12, fat |-> 0],
     [food |-> <<"n", "u", "t", "s">>, calories |-> 160, protein |-> 7, carbs |-> 6, fat |-> 14],
     [food |-> <<"p", "r", "o", "t", "e", "i", "n", " ", "b", "a", "r">>, calories |-> 200, protein |-> 20, carbs |-> 20, fat |-> 7],
     [food |-> <<"s", "m", "o", "o", "t", "h", "i", "e">>, calories |-> 250, protein |-> 10, carbs |-> 40, fat |-> 5] >>

quantities ==
  << [quantityWord |-> <<"2">>, value4 |-> 8],
     [quantityWord |-> <<"3">>, value4 |-> 12],
     [quantityWord |-> <<"4">>, value4 |-> 16],
     [quantityWord |-> <<"t", "w", "o">>, value4 |-> 8],
     [quantityWord |-> <<"t", "h", "r", "e", "e">>, value4 |-> 12],
     [quantityWord |-> <<"f", "o", "u", "r">>, value4 |-> 16],
     [quantityWord |-> <<"d", "o", "u", "b", "l", "e">>, value4 |-> 8],
     [quantityWord |-> <<"l", "a", "r", "g", "e">>, value4 |-> 6],
     [quantityWord |-> <<"s", "m", "a", "l", "l">>, value4 |-> 3],
     [quantityWord |-> <<"h", "a", "l", "f">>, value4 |-> 2] >>

\* ---------------------------------------------------------------------
\* parseMeal
\* ---------------------------------------------------------------------

\* Variant of LowerDesc that matches against the description as typed.
LowerDescAsTyped(desc) == desc

\* const lowerDesc = mealDescription.toLowerCase()
LowerDesc(desc) == ToLowerCase(desc)

\* Variant of Multiplier4 without the break: the last quantity word whose
\* pattern matches sets the multiplier.
Multiplier4NoBreak(food, lowerDesc) ==
  Only({IF hits = {} THEN 4
        ELSE quantities[CHOOSE k \in hits : \A h \in hits : h <= k].value4
        : hits \in {{i \in 1..Len(quantities) :
                       PatternTest(quantities[i].quantityWord, food, lowerDesc)}}})

\* The inner loop: the value of the first quantity word, in enumeration
\* order, whose pattern matches (then `break`); 1 when none does.
Multiplier4(food, lowerDesc) ==
  Only({IF hits = {} THEN 4 ELSE quantities[MinOf(hits)].value4
        : hits \in {{i \in 1..Len(quantities) :
                       PatternTest(quantities[i].quantityWord, food, lowerDesc)}}})

ZeroTotals ==
  [totalCalories4 |-> 0, totalProtein4 |-> 0, totalCarbs4 |-> 0,
   totalFat4 |-> 0, matchCount |-> 0]

\* One iteration of the loop over Object.entries(mockFoodDatabase).
AddFood(acc, nutrition, lowerDesc) ==
  IF \E food \in {nutrition.food} : Includes(lowerDesc, food)
  THEN Only({[totalCalories4 |-> acc.totalCalories4 + nutrition.calories * multiplier4,
              totalProtein4  |-> acc.totalProtein4 + nutrition.protein * multiplier4,
              totalCarbs4    |-> acc.totalCarbs4 + nutrition.carbs * multiplier4,
              totalFat4      |-> acc.totalFat4 + nutrition.fat * multiplier4,
              matchCount     |-> acc.matchCount + 1]
             : multiplier4 \in {Multiplier4(nutrition.food, lowerDesc)}})
  ELSE acc

RECURSIVE FoodLoopBreak(_, _, _)
\* Variant of FoodLoop that leaves the loop after the first matching entry.
FoodLoopBreak(acc, i, lowerDesc) ==
  IF i > Len(mockFoodDatabase) \/ acc.matchCount > 0 THEN acc
  ELSE Only({FoodLoopBreak(next, j, l)
             : next \in {AddFood(acc, mockFoodDatabase[i], lowerDesc)},
               j \in {i + 1}, l \in {lowerDesc}})

RECURSIVE FoodLoop(_, _, _)
\* The totals when the loop is left, from the totals acc with which entry i
\* is entered.
FoodLoop(acc, i, lowerDesc) ==
  IF i > Len(mockFoodDatabase) THEN acc
  ELSE Only({FoodLoop(next, j, l)
             : next \in {AddFood(acc, mockFoodDatabase[i], lowerDesc)},
               j \in {i + 1}, l \in {lowerDesc}})

\* Variant of Totals whose matchCount lives outside the function and is not
\* reset: it starts from the matches of the invocations that have resolved.
TotalsKeptAcrossCalls(desc) ==
  FoodLoop([ZeroTotals EXCEPT !.matchCount =
              Cardinality({i \in DOMAIN calls : calls[i].pc = "resolved"})],
           1, LowerDesc(desc))

\* The totals and matchCount after the loop.
Totals(desc) ==
  Only({FoodLoop(ZeroTotals, 1, lowerDesc) : lowerDesc \in {LowerDesc(desc)}})

\* Variant of BaseCals without the cap.
BaseCalsNoCap(words) == 100 + words * 50

\* Math.min(100 + words * 50, 800)
BaseCals(words) == Min(100 + words * 50, 800)

\* Variant of NoMatchEstimate that leaves the macros out of the object.
NoMatchEstimateCaloriesOnly(desc) ==
  [calories   |-> Num(BaseCals(SplitLength(desc))),
   protein    |-> Null,
   carbs      |-> Null,
   fat        |-> Null,
   confidence |-> 3]

\* Variant of NoMatchEstimate that estimates nothing when nothing matched.
NoMatchEstimateUnknown(desc) ==
  [calories   |-> Null,
   protein    |-> Null,
   carbs      |-> Null,
   fat        |-> Null,
   confidence |-> 0]

\* The generic estimate returned when nothing matched.
NoMatchEstimate(desc) ==
  LET baseCals == BaseCals(SplitLength(desc))
  IN [calories   |-> Num(baseCals),
      protein    |-> Num(RoundDiv(baseCals * 15, 400)),
      carbs      |-> Num(RoundDiv(baseCals * 5, 40)),
      fat        |-> Num(RoundDiv(baseCals * 35, 900)),
      confidence |-> 3]

\* Variant of Confidence10 without the cap.
Confidence10NoCap(matchCount) == 3 + matchCount * 2

\* Math.min(0.9, 0.3 + matchCount * 0.2), in tenths.
Confidence10(matchCount) == Min(9, 3 + matchCount * 2)

\* The rounded totals.
Rounded(t) ==
  [calories   |-> Num(Round4(t.totalCalories4)),
   protein    |-> Num(Round4(t.totalProtein4)),
   carbs      |-> Num(Round4(t.totalCarbs4)),
   fat        |-> Num(Round4(t.totalFat4)),
   confidence |-> Confidence10(t.matchCount)]

CalculatedCals(r) == r.protein.v * 4 + r.carbs.v * 4 + r.fat.v * 9

\* calorieDiff > result.calories * 0.2
NeedsAdjust(r) == Abs(CalculatedCals(r) - r.calories.v) * 5 > r.calories.v

\* Math.round(x * ratio) with ratio = calories / calculatedCals.  A zero
\* divisor makes the ratio Infinity (or NaN for 0/0); 0 * Infinity is NaN.
ScaleRound(x, calories, calculatedCals) ==
  IF calculatedCals = 0
  THEN IF x = 0 \/ calories = 0 THEN NaN ELSE Infinity
  ELSE Num(RoundDiv(x * calories, calculatedCals))

\* Variant of Reconcile that rescales calories along with the macros.
ReconcileAllFields(r) ==
  IF NeedsAdjust(r)
  THEN [r EXCEPT !.calories = ScaleRound(r.calories.v, r.calories.v, CalculatedCals(r)),
                 !.protein  = ScaleRound(r.protein.v, r.calories.v, CalculatedCals(r)),
                 !.carbs    = ScaleRound(r.carbs.v, r.calories.v, CalculatedCals(r)),
                 !.fat      = ScaleRound(r.fat.v, r.calories.v, CalculatedCals(r))]
  ELSE r

\* The macro validation at the end of parseMeal.
Reconcile(r) ==
  IF NeedsAdjust(r)
  THEN [r EXCEPT !.protein = ScaleRound(r.protein.v, r.calories.v, CalculatedCals(r)),
                 !.carbs   = ScaleRound(r.carbs.v, r.calories.v, CalculatedCals(r)),
                 !.fat     = ScaleRound(r.fat.v, r.calories.v, CalculatedCals(r))]
  ELSE r

\* The value parseMeal resolves with.
ParseMeal(desc) ==
  Only({IF t.matchCount = 0 THEN NoMatchEstimate(desc) ELSE Reconcile(Rounded(t))
        : t \in {Totals(desc)}})

\* Every `new RegExp(...)` the loops build compiles.
PatternsCompile ==
  \A i \in 1..Len(mockFoodDatabase), j \in 1..Len(quantities) :
    /\ \A k \in 1..Len(mockFoodDatabase[i].food) :
         mockFoodDatabase[i].food[k] \notin RegExpSpecial
    /\ \A k \in 1..Len(quantities[j].quantityWord) :
         quantities[j].quantityWord[k] \notin RegExpSpecial

\* ---------------------------------------------------------------------
\* formatParsedMeal
\* ---------------------------------------------------------------------

DecimalDigits == <<"0", "1", "2", "3", "4", "5", "6", "7", "8", "9">>

RECURSIVE Digits(_)
\* The decimal digits of the natural number n.
Digits(n) ==
  IF n < 10 THEN <<DecimalDigits[n + 1]>>
  ELSE Digits(n \div 10) \o <<DecimalDigits[(n % 10) + 1]>>

\* The text a template literal `${x}` gives for a field.
NumberToString(x) ==
  IF x.kind = "num" THEN Digits(x.v)
  ELSE IF x.kind = "nan" THEN <<"N", "a", "N">>
  ELSE IF x.kind = "inf" THEN <<"I", "n", "f", "i", "n", "i", "t", "y">>
  ELSE <<"n", "u", "l", "l">>

\* The truthiness `!x` and `if (x)` test: null, 0 and NaN are falsy.
Truthy(x) == x.kind = "inf" \/ (x.kind = "num" /\ x.v # 0)

UnableToParse ==
  <<"U", "n", "a", "b", "l", "e", " ", "t", "o", " ",
    "p", "a", "r", "s", "e", " ", "m", "e", "a", "l">>

CalSuffix == <<" ", "c", "a", "l">>

ProteinSuffix == <<"g", " ", "p", "r", "o", "t", "e", "i", "n">>

CarbsSuffix == <<"g", " ", "c", "a", "r", "b", "s">>

FatSuffix == <<"g", " ", "f", "a", "t">>

\* The separator of parts.join: a space, the three characters U+00E2 U+20AC
\* U+00A2 the source file holds between the quotes, and a space.
Separator == <<" ", "U+00E2", "U+20AC", "U+00A2", " ">>

RECURSIVE JoinParts(_, _)
\* Array.prototype.join
JoinParts(parts, separator) ==
  IF Len(parts) = 0 THEN <<>>
  ELSE IF Len(parts) = 1 THEN parts[1]
  ELSE parts[1] \o separator \o JoinParts(Tail(parts), separator)

\* The array `parts` when it is joined.
Parts(p) ==
  <<NumberToString(p.calories) \o CalSuffix>>
  \o (IF Truthy(p.protein) THEN <<NumberToString(p.protein) \o ProteinSuffix>> ELSE <<>>)
  \o (IF Truthy(p.carbs) THEN <<NumberToString(p.carbs) \o CarbsSuffix>> ELSE <<>>)
  \o (IF Truthy(p.fat) THEN <<NumberToString(p.fat) \o FatSuffix>> ELSE <<>>)

FormatParsedMeal(p) ==
  IF ~Truthy(p.calories) THEN UnableToParse
  ELSE JoinParts(Parts(p), Separator)

\* The estimates formatParsedMeal is called with: every field is null, NaN,
\* zero or a positive integer.
ParsedMeals ==
  [calories : {Null, NaN, Num(0), Num(300), Num(500)},
   protein  : {Null, NaN, Num(0), Num(20), Num(30)},
   carbs    : {Null, NaN, Num(0), Num(50)},
   fat      : {Null, NaN, Num(0), Num(20)}]

\* formatParsedMeal is not being called.
FormatIdle ==
  /\ parsed = [calories |-> Null, protein |-> Null, carbs |-> Null, fat |-> Null]
  /\ formatted = <<>>

\* ---------------------------------------------------------------------
\* calculateTotals
\* ---------------------------------------------------------------------

\* The value of a property that an object does not have.
Undefined == [kind |-> "undefined", v |-> 0]

\* meal.calories etc.: the field's value, undefined when the field is absent.
Field(meal, name) == IF name \in DOMAIN meal THEN meal[name] ELSE Undefined

\* x || 0 : null, undefined, NaN and 0 give 0.
OrZero(x) == IF Truthy(x) THEN x ELSE Num(0)

\* a + b for two numbers neither of which is NaN or negative.
Plus(a, b) ==
  IF a.kind = "inf" \/ b.kind = "inf" THEN Infinity ELSE Num(a.v + b.v)

\* Variant of Reducer whose fat is not accumulated.
ReducerFatNotAccumulated(acc, meal) ==
  [calories |-> Plus(OrZero(Field(acc, "calories")), OrZero(Field(meal, "calories"))),
   protein  |-> Plus(OrZero(Field(acc, "protein")), OrZero(Field(meal, "protein"))),
   carbs    |-> Plus(OrZero(Field(acc, "carbs")), OrZero(Field(meal, "carbs"))),
   fat      |-> OrZero(Field(meal, "fat"))]

\* The callback of meals.reduce.
Reducer(acc, meal) ==
  [calories |-> Plus(OrZero(Field(acc, "calories")), OrZero(Field(meal, "calories"))),
   protein  |-> Plus(OrZero(Field(acc, "protein")), OrZero(Field(meal, "protein"))),
   carbs    |-> Plus(OrZero(Field(acc, "carbs")), OrZero(Field(meal, "carbs"))),
   fat      |-> Plus(OrZero(Field(acc, "fat")), OrZero(Field(meal, "fat")))]

\* Variant of InitialValue with every field null.
InitialValueNull ==
  [calories |-> Null, protein |-> Null, carbs |-> Null, fat |-> Null]

\* The initial value meals.reduce is given.
InitialValue ==
  [calories |-> Num(0), protein |-> Num(0), carbs |-> Num(0), fat |-> Num(0)]

RECURSIVE Reduce(_, _, _)
\* Array.prototype.reduce from element i on, with the accumulator acc.
Reduce(ms, i, acc) ==
  IF i > Len(ms) THEN acc
  ELSE Only({Reduce(ms, i + 1, next) : next \in {Reducer(acc, ms[i])}})

CalculateTotals(ms) == Reduce(ms, 1, InitialValue)

\* The estimates calculateTotals is called with: results of parseMeal (with a
\* confidence; the one of 'coffee' has NaN macros), stored meals (without),
\* estimates with null fields, and one with absent fields.
Estimates ==
  << [calories |-> Num(300), protein |-> Null, carbs |-> Num(30), fat |-> Null],
     [calories |-> Null, protein |-> Num(20), carbs |-> Null, fat |-> Num(10)],
     [calories |-> Null, protein |-> Null, carbs |-> Null, fat |-> Null],
     [calories |-> Num(2), protein |-> NaN, carbs |-> NaN, fat |-> NaN, confidence |-> 5],
     [calories |-> Num(165), protein |-> Num(31), carbs |-> Num(0), fat |-> Num(4),
      confidence |-> 5],
     [calories |-> Num(250)] >>

\* The caller's variable before calculateTotals has returned.
NoTotals == [calories |-> Null, protein |-> Null, carbs |-> Null, fat |-> Null]

\* calculateTotals is not being called.
TotalsIdle ==
  /\ tpc = "idle"
  /\ meals = <<>>
  /\ totals = NoTotals

\* ---------------------------------------------------------------------
\* getRecommendedWorkoutType
\* ---------------------------------------------------------------------

\* type WorkoutType = 'push' | 'pull' | 'cardio'
WorkoutTypes == {"push", "pull", "cardio"}

\* getRecentWorkouts(7)
RecentLimit == 7

RECURSIVE Reverse(_)
Reverse(s) == IF s = <<>> THEN <<>> ELSE Reverse(Tail(s)) \o <<Head(s)>>

\* The rows the query of getRecentWorkouts gives: the user's rows, the one
\* created last first (.order('created_at', { ascending: false })), at most
\* limit of them (.limit(limit)).  rows is in the order of creation.
GetRecentWorkouts(rows, limit) ==
  SubSeq(Reverse(rows), 1, Min(limit, Len(rows)))

\* Variant of RecommendedFor that looks at the oldest of the fetched rows.
RecommendedForOldest(recent) ==
  IF Len(recent) = 0 THEN "push"
  ELSE CASE recent[Len(recent)].type = "push" -> "pull"
         [] recent[Len(recent)].type = "pull" -> "cardio"
         [] recent[Len(recent)].type = "cardio" -> "push"
         [] OTHER -> "push"

\* What getRecommendedWorkoutType returns for the fetched rows.
RecommendedFor(recent) ==
  IF Len(recent) = 0 THEN "push"
  ELSE CASE recent[1].type = "push" -> "pull"
         [] recent[1].type = "pull" -> "cardio"
         [] recent[1].type = "cardio" -> "push"
         [] OTHER -> "push"

\* The table is empty, the user is signed in and getRecommendedWorkoutType
\* is not being called.
WorkoutIdle ==
  /\ workouts = <<>>
  /\ signedIn = TRUE
  /\ rpc = "idle"
  /\ recentWorkouts = <<>>
  /\ fetchFailed = FALSE
  /\ recommended = "none"

\* ---------------------------------------------------------------------
\* DietPage
\* ---------------------------------------------------------------------

\* The values of the error state.
NoError == "null"

EnterDescription == "Please enter a meal description"

FailedToSave == "Failed to save meal. Please try again."

FailedToLoad == "Failed to load today's meals"

\* Variant of IsBlank without the trim.
IsBlankEmptyOnly(text) == text = <<>>

\* !mealText.trim() : the text is empty once the whitespace at its ends is
\* removed, that is, every character of it is whitespace.
IsBlank(text) == \A i \in 1..Len(text) : IsWhitespace(text[i])

\* The object handleSubmit passes to createMeal.
CreateMealArgs(text, parsedMeal) ==
  [raw_text |-> text,
   calories |-> parsedMeal.calories,
   protein  |-> parsedMeal.protein,
   carbs    |-> parsedMeal.carbs,
   fat      |-> parsedMeal.fat]

\* A number as the request body carries it: JSON has no NaN and writes null.
ToJSON(x) == IF x.kind \in {"nan", "inf"} THEN Null ELSE x

\* The row createMeal inserts.
InsertedRow(meal) ==
  [raw_text |-> meal.raw_text,
   calories |-> ToJSON(meal.calories),
   protein  |-> ToJSON(meal.protein),
   carbs    |-> ToJSON(meal.carbs),
   fat      |-> ToJSON(meal.fat)]

\* What getTodaysMeals resolves with: the rows of today, the one created last
\* first.  rows is in the order of creation.
GetTodaysMeals(rows) == Reverse(rows)

\* The calls handleSubmit makes, as they are recorded.
ParseMealCalled(text) == [op |-> "parseMeal", arg |-> text]

CreateMealCalled(meal) == [op |-> "createMeal", arg |-> meal]

MealTextCleared == [op |-> "setMealText", arg |-> <<>>]

LoadTodaysMealsCalled == [op |-> "loadTodaysMeals", arg |-> <<>>]

\* The texts the user types into the input: empty, whitespace only, and
\* descriptions, one of them with a space in front.
MealTexts ==
  { <<>>,
    <<" ">>,
    <<" ", "TAB">>,
    Phrases[1],
    Phrases[7],
    <<" ">> \o Phrases[4] }

\* The page is not mounted.
DietIdle ==
  /\ mealText = <<>>
  /\ todaysMeals = <<>>
  /\ loading = FALSE
  /\ submitting = FALSE
  /\ error = NoError
  /\ hpc = "idle"
  /\ mountLoad = "unmounted"
  /\ table = <<>>
  /\ events = <<>>

\* ---------------------------------------------------------------------
\* TravelPage: the values of the trip form
\* ---------------------------------------------------------------------

\* The largest number of trips created.
MaxTrips == 2

RequiredFieldsError == "Please fill in all required fields"

DateOrderError == "End date must be after start date"

FailedToSaveTrip == "Failed to save trip. Please try again."

FailedToLoadTrips == "Failed to load trips"

\* The value of a text input: empty or a text.
TextValues == {<<>>, <<"T", "e", "s", "t">>}

\* The value of a date input: empty, or a date as <<year, month, day>>.
DateValues == {<<>>, <<2024, 6, 7>>, <<2025, 1, 1>>}

\* The form as useState initialises it and as a successful submit resets it.
\* The optional fields (accommodation, flight, airports, times, notes) take
\* no part in the validation and are left out.
EmptyForm ==
  [destination |-> <<>>, country |-> <<>>, city |-> <<>>,
   start_date |-> <<>>, end_date |-> <<>>]

FormFields == DOMAIN EmptyForm

\* The values the input of a field can hold.
FieldValues(name) ==
  IF name \in {"start_date", "end_date"} THEN DateValues ELSE TextValues

\* !value of a string: it is the empty string.
IsEmptyString(value) == value = <<>>

\* Variant of MissingRequired that does not look at country.
MissingRequiredNoCountry(fd) ==
  \/ IsEmptyString(fd.destination)
  \/ IsEmptyString(fd.city)
  \/ IsEmptyString(fd.start_date)
  \/ IsEmptyString(fd.end_date)

\* The first test of handleSubmit.
MissingRequired(fd) ==
  \/ IsEmptyString(fd.destination)
  \/ IsEmptyString(fd.country)
  \/ IsEmptyString(fd.city)
  \/ IsEmptyString(fd.start_date)
  \/ IsEmptyString(fd.end_date)

\* new Date(value) of a date input's value, in days: a count that grows with
\* the calendar date (the time value of a yyyy-mm-dd string is midnight UTC
\* of that day).  Of the empty string it is the invalid date, NaN.
NewDate(value) ==
  IF value = <<>> THEN NaN
  ELSE Num((value[1] * 12 + (value[2] - 1)) * 31 + (value[3] - 1))

\* a < b of two dates: false when either is the invalid date.
DateLess(a, b) == a.kind = "num" /\ b.kind = "num" /\ a.v < b.v

\* The second test of handleSubmit.
EndBeforeStart(fd) == DateLess(NewDate(fd.end_date), NewDate(fd.start_date))

\* The object handleSubmit passes to createTrip.
TripData(fd) ==
  [destination |-> fd.destination, country |-> fd.country, city |-> fd.city,
   start_date |-> fd.start_date, end_date |-> fd.end_date]

\* The page is not mounted.
TravelIdle ==
  /\ formData = EmptyForm
  /\ showForm = FALSE
  /\ trips = <<>>
  /\ travelLoading = FALSE
  /\ travelSubmitting = FALSE
  /\ travelError = NoError
  /\ spc = "idle"
  /\ tripLoad = "unmounted"
  /\ tripCalls = <<>>

\* ---------------------------------------------------------------------
\* useAuth: sessions and states
\* ---------------------------------------------------------------------

\* The largest number of auth state change events delivered.
MaxEvents == 3

\* session: null
NoSession == [kind |-> "null"]

\* user: null
NoUser == "null"

\* The sessions Supabase hands out: two of one user (before and after a
\* token refresh) and one of another user.
Sessions ==
  { [kind |-> "session", access_token |-> "token-1", user |-> "user-1"],
    [kind |-> "session", access_token |-> "token-2", user |-> "user-1"],
    [kind |-> "session", access_token |-> "token-3", user |-> "user-2"] }

\* Variant of UserOf that reads the user of no session.
UserOfNoSession(session) == NoUser

\* session?.user ?? null
UserOf(session) == IF session = NoSession THEN NoUser ELSE session.user

\* The state useState starts with.
InitialAuthState == [user |-> NoUser, session |-> NoSession, loading |-> TRUE]

\* The state getInitialSession and the event callback set for a session.
AuthStateOf(session) ==
  [user |-> UserOf(session), session |-> session, loading |-> FALSE]

\* What getSession settles with: it resolves with a session or with none,
\* resolves with an error (and no session), or rejects.
GetSessionOutcomes ==
  {[kind |-> "resolved", session |-> s, error |-> FALSE] : s \in Sessions \cup {NoSession}}
    \cup {[kind |-> "resolved", session |-> NoSession, error |-> TRUE],
          [kind |-> "rejected", session |-> NoSession, error |-> TRUE]}

\* The state getInitialSession sets when getSession has settled: that of the
\* session it resolved with, and that of no session in the catch.
AfterGetSession(state, outcome) ==
  IF outcome.kind = "resolved" THEN AuthStateOf(outcome.session)
  ELSE AuthStateOf(NoSession)

\* The hook is not rendered.
AuthIdle ==
  /\ authState = InitialAuthState
  /\ mounted = FALSE
  /\ gpc = "unmounted"
  /\ delivered = <<>>

\* ---------------------------------------------------------------------
\* useFetch: states and responses
\* ---------------------------------------------------------------------

\* The hook is rendered with at most MaxParams different (tableName,
\* filterParams) values, numbered in the order of their renders.
MaxParams == 2

\* The largest number of requests issued by the effect and by refetch.
MaxRequests == 3

\* data: null
NoData == [kind |-> "null", of |-> 0]

\* error: null
NoFetchError == [kind |-> "null", of |-> 0]

\* The rows a query with the parameters p resolves with.
RowsOf(p) == [kind |-> "rows", of |-> p]

\* The error a query with the parameters p resolves with, and the error
\* with code 'UNKNOWN' the catch builds when it rejects.
ErrorOf(p, code) == [kind |-> code, of |-> p]

\* The state useState starts with.
InitialFetchState == [data |-> NoData, error |-> NoFetchError, loading |-> TRUE]

\* setState(prev => ({ ...prev, loading: true, error: null }))
Loading(prev) == [prev EXCEPT !.loading = TRUE, !.error = NoFetchError]

\* The ways a query settles: resolved with rows, resolved with an error,
\* rejected.
Outcomes == {"rows", "error", "rejected"}

\* The state set when the query of a request with the parameters p settles.
Settled(p, outcome) ==
  IF outcome = "rows"
    THEN [data |-> RowsOf(p), error |-> NoFetchError, loading |-> FALSE]
  ELSE IF outcome = "error"
    THEN [data |-> NoData, error |-> ErrorOf(p, "PGRST"), loading |-> FALSE]
  ELSE [data |-> NoData, error |-> ErrorOf(p, "UNKNOWN"), loading |-> FALSE]

\* A request: who issued it, with which parameters, whether its effect has
\* been cleaned up (isCancelled) and whether its query has settled.
Request(by, p) == [by |-> by, params |-> p, isCancelled |-> FALSE, settled |-> FALSE]

\* The cleanup of the effect: isCancelled of its closure is set.
Cancel(reqs) ==
  [i \in 1..Len(reqs) |->
     IF reqs[i].by = "effect" THEN [reqs[i] EXCEPT !.isCancelled = TRUE]
     ELSE reqs[i]]

\* The hook is not rendered.
FetchIdle ==
  /\ fetchState = InitialFetchState
  /\ fetchParams = 0
  /\ fetchMounted = FALSE
  /\ requests = <<>>

\* ---------------------------------------------------------------------
\* saveTodaysWorkout
\* ---------------------------------------------------------------------

\* At most MaxSaves calls of saveTodaysWorkout are made.
MaxSaves == 2

\* A call that has not been made.
NoSave == [pc |-> "idle", type |-> "push", completed |-> FALSE, existingWorkout |-> 0]

\* What getTodaysWorkout returns for the user's rows of today: .single()
\* gives the row when there is exactly one, and the error PGRST116 with no
\* data when there is none or more than one, which the function turns into
\* null.  A row is named by its place in the table, null is 0.
GetTodaysWorkout(rows) == IF Len(rows) = 1 THEN 1 ELSE 0

\* The table after updateWorkout(id, { completed, type }).
UpdateWorkout(rows, id, type, completed) ==
  [rows EXCEPT ![id] = [type |-> type, completed |-> completed]]

\* No call of saveTodaysWorkout has been made.
SaveIdle == saves = [i \in 1..MaxSaves |-> NoSave]

\* ---------------------------------------------------------------------
\* The meal data-access functions and the policies of public.meals
\* ---------------------------------------------------------------------

\* public.meals holds at most MaxMealRows rows, deleted ones included.
MaxMealRows == 2

Users == {"user-1", "user-2"}

\* Who calls: a signed-in user, or nobody (getUser gives user: null and
\* auth.uid() is NULL).
Callers == Users \cup {NoUser}

\* The values of raw_text and of a search text.
RawTexts == {<<"e", "g", "g">>, <<"E", "g", "g", "s">>}

\* The days on which rows are created and which getDailyStats is asked for.
Days == {1, 2}

\* The place of a row that has been deleted.  A row is named by its place.
Deleted == [user_id |-> NoUser, raw_text |-> <<>>, day |-> 0]

\* Variant of SelectPolicy that lets everybody see every row.
SelectPolicyAll(uid, row) == row # Deleted

\* "Users can view own meals": USING (auth.uid() = user_id).  With no user
\* auth.uid() is NULL and the comparison is not true.
SelectPolicy(uid, row) == uid # NoUser /\ uid = row.user_id

\* "Users can insert own meals": WITH CHECK (auth.uid() = user_id)
InsertPolicy(uid, row) == uid # NoUser /\ uid = row.user_id

\* "Users can update own meals": USING and WITH CHECK (auth.uid() = user_id)
UpdatePolicy(uid, row) == uid # NoUser /\ uid = row.user_id

\* "Users can delete own meals": USING (auth.uid() = user_id)
DeletePolicy(uid, row) == uid # NoUser /\ uid = row.user_id

\* The rows a statement of uid can see.
VisibleTo(uid, rows) ==
  {id \in 1..Len(rows) : rows[id] # Deleted /\ SelectPolicy(uid, rows[id])}

\* .ilike('raw_text', `%${searchText}%`)
ILike(text, searchText) == Includes(ToLowerCase(text), ToLowerCase(searchText))

\* What a call leaves behind: the function, the caller, the rows it
\* returned or aggregated, and whether it threw.
Reply(op, caller, rows, threw) ==
  [op |-> op, caller |-> caller, rows |-> rows, threw |-> threw]

\* The table is empty and no function has been called.
AccessIdle ==
  /\ mealRows = <<>>
  /\ reply = Reply("none", NoUser, {}, FALSE)

\* ---------------------------------------------------------------------
\* Inputs
\* ---------------------------------------------------------------------

RECURSIVE Join(_)
\* The phrases of ws joined by single spaces.
Join(ws) ==
  IF Len(ws) = 0 THEN <<>>
  ELSE IF Len(ws) = 1 THEN Phrases[ws[1]]
  ELSE Phrases[ws[1]] \o <<" ">> \o Join(Tail(ws))

Descriptions ==
  {Join(ws) : ws \in UNION {[1..n -> 1..Len(Phrases)] : n \in 0..MaxWords}}

\* The descriptions of the overlapping invocations: the empty one and the
\* single phrases.
CallDescriptions == {<<>>} \cup {Phrases[k] : k \in 1..Len(Phrases)}

\* The words put next to a food in the descriptions with quantities: digits
\* alone and inside longer numbers, quantity words, and a word that is none.
QuantityTokens ==
  { <<"2">>, <<"1", "2">>, <<"2", "5">>, <<"3">>, <<"t", "w", "o">>,
    <<"l", "a", "r", "g", "e">>, <<"h", "a", "l", "f">>, <<"a", "n", "d">> }

QuantityFoods == {Phrases[1], Phrases[7]}

\* The descriptions with quantities: the empty one, a word or a food alone,
\* a word before or after a food, a food between two words, and two words
\* before a food.
QuantityDescriptions ==
  {<<>>} \cup QuantityTokens \cup QuantityFoods
    \cup {w \o <<" ">> \o f : w \in QuantityTokens, f \in QuantityFoods}
    \cup {f \o <<" ">> \o w : w \in QuantityTokens, f \in QuantityFoods}
    \cup {w \o <<" ">> \o f \o <<" ">> \o v
            : w \in QuantityTokens, v \in QuantityTokens, f \in QuantityFoods}
    \cup {w \o <<" ">> \o v \o <<" ">> \o f
            : w \in QuantityTokens, v \in QuantityTokens, f \in QuantityFoods}

\* An invocation that has not been made.
NoCall == [pc |-> "idle", mealDescription |-> <<>>, result |-> NoResult]

\* No invocation of parseMeal overlaps with another.
ConcurrentIdle == calls = [i \in 1..MaxCalls |-> NoCall]

\* ---------------------------------------------------------------------
\* One invocation of parseMeal
\* ---------------------------------------------------------------------

\* No invocation of parseMeal is under way.
ParseIdle ==
  /\ pc = "idle"
  /\ mealDescription = <<>>
  /\ result = NoResult

Init ==
  /\ ParseIdle
  /\ FormatIdle
  /\ TotalsIdle
  /\ ConcurrentIdle
  /\ WorkoutIdle
  /\ DietIdle
  /\ TravelIdle
  /\ AuthIdle
  /\ FetchIdle
  /\ SaveIdle
  /\ AccessIdle

\* parseMeal(mealDescription) is called and suspends at the 500 ms timer.
Call ==
  /\ pc = "idle"
  /\ \E d \in Descriptions : mealDescription' = d
  /\ pc' = "waiting"
  /\ UNCHANGED result
  /\ UNCHANGED <<formatVars, totalsVars, concurrentVars, workoutVars, dietVars, travelVars, authVars, fetchVars, saveVars, accessVars>>

\* The timer fires; the rest of the function body runs to its return.
TimerFires ==
  /\ pc = "waiting"
  /\ IF PatternsCompile
     THEN pc' = "resolved" /\ result' = ParseMeal(mealDescription)
     ELSE pc' = "rejected" /\ UNCHANGED result
  /\ UNCHANGED mealDescription
  /\ UNCHANGED <<formatVars, totalsVars, concurrentVars, workoutVars, dietVars, travelVars, authVars, fetchVars, saveVars, accessVars>>

\* The caller has consumed the settled promise.
Return ==
  /\ pc \in {"resolved", "rejected"}
  /\ pc' = "idle"
  /\ mealDescription' = <<>>
  /\ result' = NoResult
  /\ UNCHANGED <<formatVars, totalsVars, concurrentVars, workoutVars, dietVars, travelVars, authVars, fetchVars, saveVars, accessVars>>

Next == Call \/ TimerFires \/ Return

Spec == Init /\ [][Next]_vars

\* The event loop runs a timer callback once its delay has elapsed.
FairSpec == Spec /\ WF_vars(TimerFires)

\* ---------------------------------------------------------------------
\* One call of formatParsedMeal
\* ---------------------------------------------------------------------

\* The caller holds an estimate; formatted is empty until the call returns.
FormatInit ==
  /\ ParseIdle
  /\ TotalsIdle
  /\ ConcurrentIdle
  /\ WorkoutIdle
  /\ DietIdle
  /\ TravelIdle
  /\ AuthIdle
  /\ FetchIdle
  /\ SaveIdle
  /\ AccessIdle
  /\ parsed \in ParsedMeals
  /\ formatted = <<>>

\* formatParsedMeal(parsed) runs and returns.
FormatCall ==
  /\ formatted = <<>>
  /\ formatted' = FormatParsedMeal(parsed)
  /\ UNCHANGED parsed
  /\ UNCHANGED <<parseVars, totalsVars, concurrentVars, workoutVars, dietVars, travelVars, authVars, fetchVars, saveVars, accessVars>>

FormatNext == FormatCall

FormatSpec == FormatInit /\ [][FormatNext]_vars

\* ---------------------------------------------------------------------
\* One call of calculateTotals
\* ---------------------------------------------------------------------

\* The caller holds an array of at most MaxMeals estimates.
TotalsInit ==
  /\ ParseIdle
  /\ FormatIdle
  /\ ConcurrentIdle
  /\ WorkoutIdle
  /\ DietIdle
  /\ TravelIdle
  /\ AuthIdle
  /\ FetchIdle
  /\ SaveIdle
  /\ AccessIdle
  /\ tpc = "called"
  /\ meals \in UNION {[1..n -> {Estimates[k] : k \in 1..Len(Estimates)}] : n \in 0..MaxMeals}
  /\ totals = NoTotals

\* calculateTotals(meals) runs and returns.
TotalsCall ==
  /\ tpc = "called"
  /\ tpc' = "returned"
  /\ totals' = CalculateTotals(meals)
  /\ UNCHANGED meals
  /\ UNCHANGED <<parseVars, formatVars, concurrentVars, workoutVars, dietVars, travelVars, authVars, fetchVars, saveVars, accessVars>>

TotalsNext == TotalsCall

TotalsSpec == TotalsInit /\ [][TotalsNext]_vars

\* ---------------------------------------------------------------------
\* Overlapping invocations of parseMeal
\* ---------------------------------------------------------------------

ConcurrentInit ==
  /\ ParseIdle
  /\ FormatIdle
  /\ TotalsIdle
  /\ ConcurrentIdle
  /\ WorkoutIdle
  /\ DietIdle
  /\ TravelIdle
  /\ AuthIdle
  /\ FetchIdle
  /\ SaveIdle
  /\ AccessIdle

\* Invocation i is made and suspends at its timer.
CallAt(i) ==
  /\ calls[i].pc = "idle"
  /\ \E d \in CallDescriptions :
       calls' = [calls EXCEPT ![i] = [pc |-> "waiting", mealDescription |-> d,
                                      result |-> NoResult]]
  /\ UNCHANGED <<parseVars, formatVars, totalsVars, workoutVars, dietVars, travelVars, authVars, fetchVars, saveVars, accessVars>>

\* The timer of invocation i fires; the rest of its body runs to the return
\* without yielding to another invocation.
TimerFiresAt(i) ==
  /\ calls[i].pc = "waiting"
  /\ calls' = [calls EXCEPT ![i] =
                 IF PatternsCompile
                 THEN [@ EXCEPT !.pc = "resolved",
                                !.result = ParseMeal(calls[i].mealDescription)]
                 ELSE [@ EXCEPT !.pc = "rejected"]]
  /\ UNCHANGED <<parseVars, formatVars, totalsVars, workoutVars, dietVars, travelVars, authVars, fetchVars, saveVars, accessVars>>

\* The caller of invocation i has consumed the settled promise.
ReturnAt(i) ==
  /\ calls[i].pc \in {"resolved", "rejected"}
  /\ calls' = [calls EXCEPT ![i] = NoCall]
  /\ UNCHANGED <<parseVars, formatVars, totalsVars, workoutVars, dietVars, travelVars, authVars, fetchVars, saveVars, accessVars>>

ConcurrentNext ==
  \E i \in 1..MaxCalls : CallAt(i) \/ TimerFiresAt(i) \/ ReturnAt(i)

ConcurrentSpec == ConcurrentInit /\ [][ConcurrentNext]_vars

\* ---------------------------------------------------------------------
\* The workouts table and getRecommendedWorkoutType
\* ---------------------------------------------------------------------

WorkoutInit ==
  /\ ParseIdle
  /\ FormatIdle
  /\ TotalsIdle
  /\ ConcurrentIdle
  /\ WorkoutIdle
  /\ DietIdle
  /\ TravelIdle
  /\ AuthIdle
  /\ FetchIdle
  /\ SaveIdle
  /\ AccessIdle

\* createWorkout inserts a row of the signed-in user.
CreateWorkout ==
  /\ signedIn
  /\ Len(workouts) < MaxWorkouts
  /\ \E t \in WorkoutTypes, c \in BOOLEAN :
       workouts' = Append(workouts, [type |-> t, completed |-> c])
  /\ UNCHANGED <<signedIn, rpc, recentWorkouts, fetchFailed, recommended>>
  /\ UNCHANGED <<parseVars, formatVars, totalsVars, concurrentVars, dietVars, travelVars, authVars, fetchVars, saveVars, accessVars>>

\* The session ends or begins: supabase.auth.getUser() gives no user or one.
SessionChanges ==
  /\ signedIn' = ~signedIn
  /\ UNCHANGED <<workouts, rpc, recentWorkouts, fetchFailed, recommended>>
  /\ UNCHANGED <<parseVars, formatVars, totalsVars, concurrentVars, dietVars, travelVars, authVars, fetchVars, saveVars, accessVars>>

\* getRecommendedWorkoutType() is called and awaits getRecentWorkouts(7).
RecommendCall ==
  /\ rpc = "idle"
  /\ rpc' = "fetching"
  /\ UNCHANGED <<workouts, signedIn, recentWorkouts, fetchFailed, recommended>>
  /\ UNCHANGED <<parseVars, formatVars, totalsVars, concurrentVars, dietVars, travelVars, authVars, fetchVars, saveVars, accessVars>>

\* getRecentWorkouts resolves with the rows; the switch picks the type.
FetchResolves ==
  /\ rpc = "fetching"
  /\ signedIn
  /\ recentWorkouts' = GetRecentWorkouts(workouts, RecentLimit)
  /\ fetchFailed' = FALSE
  /\ recommended' = RecommendedFor(recentWorkouts')
  /\ rpc' = "returned"
  /\ UNCHANGED <<workouts, signedIn>>
  /\ UNCHANGED <<parseVars, formatVars, totalsVars, concurrentVars, dietVars, travelVars, authVars, fetchVars, saveVars, accessVars>>

\* getRecentWorkouts throws (no user, or the query gives an error); the catch
\* block returns 'push'.
FetchThrows ==
  /\ rpc = "fetching"
  /\ recentWorkouts' = <<>>
  /\ fetchFailed' = TRUE
  /\ recommended' = "push"
  /\ rpc' = "returned"
  /\ UNCHANGED <<workouts, signedIn>>
  /\ UNCHANGED <<parseVars, formatVars, totalsVars, concurrentVars, dietVars, travelVars, authVars, fetchVars, saveVars, accessVars>>

\* The caller has taken the recommendation.
RecommendReturn ==
  /\ rpc = "returned"
  /\ rpc' = "idle"
  /\ recentWorkouts' = <<>>
  /\ fetchFailed' = FALSE
  /\ recommended' = "none"
  /\ UNCHANGED <<workouts, signedIn>>
  /\ UNCHANGED <<parseVars, formatVars, totalsVars, concurrentVars, dietVars, travelVars, authVars, fetchVars, saveVars, accessVars>>

WorkoutNext ==
  \/ CreateWorkout
  \/ SessionChanges
  \/ RecommendCall
  \/ FetchResolves
  \/ FetchThrows
  \/ RecommendReturn

WorkoutSpec == WorkoutInit /\ [][WorkoutNext]_vars

\* ---------------------------------------------------------------------
\* DietPage: the meal form
\* ---------------------------------------------------------------------

\* The page has mounted: the effect has called loadTodaysMeals, which has set
\* loading and awaits getTodaysMeals.
DietInit ==
  /\ ParseIdle
  /\ FormatIdle
  /\ TotalsIdle
  /\ ConcurrentIdle
  /\ WorkoutIdle
  /\ TravelIdle
  /\ AuthIdle
  /\ FetchIdle
  /\ SaveIdle
  /\ AccessIdle
  /\ mealText = <<>>
  /\ todaysMeals = <<>>
  /\ loading = TRUE
  /\ submitting = FALSE
  /\ error = NoError
  /\ hpc = "idle"
  /\ mountLoad = "loading"
  /\ table = <<>>
  /\ events = <<>>

\* onChange of the input, which is disabled while submitting.
SetMealText ==
  /\ ~submitting
  /\ \E text \in MealTexts : mealText' = text
  /\ UNCHANGED <<todaysMeals, loading, submitting, error, hpc, mountLoad, table, events>>
  /\ UNCHANGED <<parseVars, formatVars, totalsVars, concurrentVars, workoutVars, travelVars, authVars, fetchVars, saveVars, accessVars>>

\* handleSubmit with a blank text: the error is set and the handler returns.
SubmitBlank ==
  /\ ~submitting
  /\ IsBlank(mealText)
  /\ error' = EnterDescription
  /\ events' = <<>>
  /\ UNCHANGED <<mealText, todaysMeals, loading, submitting, hpc, mountLoad, table>>
  /\ UNCHANGED <<parseVars, formatVars, totalsVars, concurrentVars, workoutVars, travelVars, authVars, fetchVars, saveVars, accessVars>>

\* handleSubmit with a text: submitting is set, the error is cleared, and
\* parseMeal(mealText) is called, which suspends at its timer.
SubmitMeal ==
  /\ ~submitting
  /\ ~IsBlank(mealText)
  /\ Len(table) < MaxStored
  /\ pc = "idle"
  /\ submitting' = TRUE
  /\ error' = NoError
  /\ hpc' = "parsing"
  /\ pc' = "waiting"
  /\ mealDescription' = mealText
  /\ result' = NoResult
  /\ events' = <<ParseMealCalled(mealText)>>
  /\ UNCHANGED <<mealText, todaysMeals, loading, mountLoad, table>>
  /\ UNCHANGED <<formatVars, totalsVars, concurrentVars, workoutVars, travelVars, authVars, fetchVars, saveVars, accessVars>>

\* Variant of ParseSettles that does not await createMeal: the input is
\* cleared and the meals are reloaded in the same step.
ParseSettlesSavesAtOnce ==
  /\ hpc = "parsing"
  /\ pc \in {"resolved", "rejected"}
  /\ hpc' = "reloading"
  /\ events' = events \o <<CreateMealCalled(CreateMealArgs(mealText, result)),
                            MealTextCleared, LoadTodaysMealsCalled>>
  /\ table' = Append(table, InsertedRow(CreateMealArgs(mealText, result)))
  /\ mealText' = <<>>
  /\ loading' = TRUE
  /\ pc' = "idle"
  /\ mealDescription' = <<>>
  /\ result' = NoResult
  /\ UNCHANGED <<todaysMeals, submitting, error, mountLoad>>
  /\ UNCHANGED <<formatVars, totalsVars, concurrentVars, workoutVars, travelVars, authVars, fetchVars, saveVars, accessVars>>

\* The promise of parseMeal has settled and handleSubmit goes on: resolved,
\* it calls createMeal and awaits it; rejected, the catch block sets the
\* error and the finally block resets submitting.
ParseSettles ==
  /\ hpc = "parsing"
  /\ pc \in {"resolved", "rejected"}
  /\ IF pc = "resolved"
     THEN /\ hpc' = "saving"
          /\ events' = Append(events, CreateMealCalled(CreateMealArgs(mealText, result)))
          /\ UNCHANGED <<error, submitting>>
     ELSE /\ hpc' = "idle"
          /\ error' = FailedToSave
          /\ submitting' = FALSE
          /\ UNCHANGED events
  /\ pc' = "idle"
  /\ mealDescription' = <<>>
  /\ result' = NoResult
  /\ UNCHANGED <<mealText, todaysMeals, loading, mountLoad, table>>
  /\ UNCHANGED <<formatVars, totalsVars, concurrentVars, workoutVars, travelVars, authVars, fetchVars, saveVars, accessVars>>

\* createMeal resolves: the row is in the table; handleSubmit clears the
\* input and calls loadTodaysMeals, which sets loading, clears the error and
\* awaits getTodaysMeals.
CreateResolves ==
  /\ hpc = "saving"
  /\ table' = Append(table, InsertedRow(events[Len(events)].arg))
  /\ mealText' = <<>>
  /\ loading' = TRUE
  /\ error' = NoError
  /\ hpc' = "reloading"
  /\ events' = events \o <<MealTextCleared, LoadTodaysMealsCalled>>
  /\ UNCHANGED <<todaysMeals, submitting, mountLoad>>
  /\ UNCHANGED <<parseVars, formatVars, totalsVars, concurrentVars, workoutVars, travelVars, authVars, fetchVars, saveVars, accessVars>>

\* Variant of CreateRejects without the finally block.
CreateRejectsNoFinally ==
  /\ hpc = "saving"
  /\ error' = FailedToSave
  /\ hpc' = "idle"
  /\ UNCHANGED <<mealText, todaysMeals, loading, submitting, mountLoad, table, events>>
  /\ UNCHANGED <<parseVars, formatVars, totalsVars, concurrentVars, workoutVars, travelVars, authVars, fetchVars, saveVars, accessVars>>

\* createMeal rejects (no user, or the insert gives an error): the catch
\* block sets the error and the finally block resets submitting.
CreateRejects ==
  /\ hpc = "saving"
  /\ error' = FailedToSave
  /\ submitting' = FALSE
  /\ hpc' = "idle"
  /\ UNCHANGED <<mealText, todaysMeals, loading, mountLoad, table, events>>
  /\ UNCHANGED <<parseVars, formatVars, totalsVars, concurrentVars, workoutVars, travelVars, authVars, fetchVars, saveVars, accessVars>>

\* The loadTodaysMeals that handleSubmit awaits gets the rows; the finally
\* blocks of both reset loading and submitting.
ReloadResolves ==
  /\ hpc = "reloading"
  /\ todaysMeals' = GetTodaysMeals(table)
  /\ loading' = FALSE
  /\ submitting' = FALSE
  /\ hpc' = "idle"
  /\ UNCHANGED <<mealText, error, mountLoad, table, events>>
  /\ UNCHANGED <<parseVars, formatVars, totalsVars, concurrentVars, workoutVars, travelVars, authVars, fetchVars, saveVars, accessVars>>

\* getTodaysMeals rejects in the loadTodaysMeals that handleSubmit awaits:
\* loadTodaysMeals catches it and sets its own error.
ReloadRejects ==
  /\ hpc = "reloading"
  /\ error' = FailedToLoad
  /\ loading' = FALSE
  /\ submitting' = FALSE
  /\ hpc' = "idle"
  /\ UNCHANGED <<mealText, todaysMeals, mountLoad, table, events>>
  /\ UNCHANGED <<parseVars, formatVars, totalsVars, concurrentVars, workoutVars, travelVars, authVars, fetchVars, saveVars, accessVars>>

\* The loadTodaysMeals started on mount gets the rows.
MountLoadResolves ==
  /\ mountLoad = "loading"
  /\ todaysMeals' = GetTodaysMeals(table)
  /\ loading' = FALSE
  /\ mountLoad' = "done"
  /\ UNCHANGED <<mealText, submitting, error, hpc, table, events>>
  /\ UNCHANGED <<parseVars, formatVars, totalsVars, concurrentVars, workoutVars, travelVars, authVars, fetchVars, saveVars, accessVars>>

\* getTodaysMeals rejects in the loadTodaysMeals started on mount.
MountLoadRejects ==
  /\ mountLoad = "loading"
  /\ error' = FailedToLoad
  /\ loading' = FALSE
  /\ mountLoad' = "done"
  /\ UNCHANGED <<mealText, todaysMeals, submitting, hpc, table, events>>
  /\ UNCHANGED <<parseVars, formatVars, totalsVars, concurrentVars, workoutVars, travelVars, authVars, fetchVars, saveVars, accessVars>>

DietNext ==
  \/ SetMealText
  \/ SubmitBlank
  \/ SubmitMeal
  \/ TimerFires
  \/ ParseSettles
  \/ CreateResolves
  \/ CreateRejects
  \/ ReloadResolves
  \/ ReloadRejects
  \/ MountLoadResolves
  \/ MountLoadRejects

DietSpec == DietInit /\ [][DietNext]_vars

\* ---------------------------------------------------------------------
\* parseMeal of a description with quantities, and formatParsedMeal of its
\* estimate
\* ---------------------------------------------------------------------

\* parseMeal(mealDescription) is called and suspends at the 500 ms timer.
QuantityCall ==
  /\ pc = "idle"
  /\ \E d \in QuantityDescriptions : mealDescription' = d
  /\ pc' = "waiting"
  /\ UNCHANGED result
  /\ UNCHANGED <<formatVars, totalsVars, concurrentVars, workoutVars, dietVars, travelVars, authVars, fetchVars, saveVars, accessVars>>

\* formatParsedMeal is called with the estimate parseMeal resolved with.
FormatEstimate ==
  /\ pc = "resolved"
  /\ pc' = "formatted"
  /\ parsed' = [calories |-> result.calories, protein |-> result.protein,
                carbs |-> result.carbs, fat |-> result.fat]
  /\ formatted' = FormatParsedMeal(result)
  /\ UNCHANGED <<mealDescription, result>>
  /\ UNCHANGED <<totalsVars, concurrentVars, workoutVars, dietVars, travelVars, authVars, fetchVars, saveVars, accessVars>>

\* The caller has consumed the estimate and its text.
QuantityReturn ==
  /\ pc = "formatted"
  /\ pc' = "idle"
  /\ mealDescription' = <<>>
  /\ result' = NoResult
  /\ parsed' = [calories |-> Null, protein |-> Null, carbs |-> Null, fat |-> Null]
  /\ formatted' = <<>>
  /\ UNCHANGED <<totalsVars, concurrentVars, workoutVars, dietVars, travelVars, authVars, fetchVars, saveVars, accessVars>>

QuantityNext == QuantityCall \/ TimerFires \/ FormatEstimate \/ QuantityReturn

QuantitySpec == Init /\ [][QuantityNext]_vars

\* ---------------------------------------------------------------------
\* TravelPage: the trip form
\* ---------------------------------------------------------------------

\* The page has mounted: the effect has called loadTrips, which has set
\* loading and awaits getUpcomingTrips.
TravelInit ==
  /\ ParseIdle
  /\ FormatIdle
  /\ TotalsIdle
  /\ ConcurrentIdle
  /\ WorkoutIdle
  /\ DietIdle
  /\ AuthIdle
  /\ FetchIdle
  /\ SaveIdle
  /\ AccessIdle
  /\ formData = EmptyForm
  /\ showForm = FALSE
  /\ trips = <<>>
  /\ travelLoading = TRUE
  /\ travelSubmitting = FALSE
  /\ travelError = NoError
  /\ spc = "idle"
  /\ tripLoad = "loading"
  /\ tripCalls = <<>>

\* onClick of the '+ Add Trip' / 'Cancel' button.
ToggleForm ==
  /\ showForm' = ~showForm
  /\ UNCHANGED <<formData, trips, travelLoading, travelSubmitting, travelError,
                 spc, tripLoad, tripCalls>>
  /\ UNCHANGED <<parseVars, formatVars, totalsVars, concurrentVars, workoutVars, dietVars, authVars, fetchVars, saveVars, accessVars>>

\* handleInputChange: onChange of an input of the form, which is rendered
\* while showForm and disabled while submitting.
HandleInputChange ==
  /\ showForm
  /\ ~travelSubmitting
  /\ \E name \in FormFields : \E value \in FieldValues(name) :
       formData' = [formData EXCEPT ![name] = value]
  /\ UNCHANGED <<showForm, trips, travelLoading, travelSubmitting, travelError,
                 spc, tripLoad, tripCalls>>
  /\ UNCHANGED <<parseVars, formatVars, totalsVars, concurrentVars, workoutVars, dietVars, authVars, fetchVars, saveVars, accessVars>>

\* handleSubmit up to its first await: the two validations, each of which
\* sets its error and returns; otherwise submitting is set, the error is
\* cleared and createTrip is called.  The submit button is disabled while
\* submitting.
HandleSubmit ==
  /\ showForm
  /\ ~travelSubmitting
  /\ IF MissingRequired(formData)
       THEN /\ travelError' = RequiredFieldsError
            /\ UNCHANGED <<travelSubmitting, spc, tripCalls>>
     ELSE IF EndBeforeStart(formData)
       THEN /\ travelError' = DateOrderError
            /\ UNCHANGED <<travelSubmitting, spc, tripCalls>>
     ELSE /\ Len(tripCalls) < MaxTrips
          /\ travelSubmitting' = TRUE
          /\ travelError' = NoError
          /\ tripCalls' = Append(tripCalls, TripData(formData))
          /\ spc' = "creating"
  /\ UNCHANGED <<formData, showForm, trips, travelLoading, tripLoad>>
  /\ UNCHANGED <<parseVars, formatVars, totalsVars, concurrentVars, workoutVars, dietVars, authVars, fetchVars, saveVars, accessVars>>

\* createTrip resolves: the form is reset and hidden, and loadTrips is
\* called, which sets loading, clears the error and awaits getUpcomingTrips.
CreateTripResolves ==
  /\ spc = "creating"
  /\ formData' = EmptyForm
  /\ showForm' = FALSE
  /\ travelLoading' = TRUE
  /\ travelError' = NoError
  /\ spc' = "reloading"
  /\ UNCHANGED <<trips, travelSubmitting, tripLoad, tripCalls>>
  /\ UNCHANGED <<parseVars, formatVars, totalsVars, concurrentVars, workoutVars, dietVars, authVars, fetchVars, saveVars, accessVars>>

\* createTrip rejects: the catch sets the error, the finally clears
\* submitting.
CreateTripRejects ==
  /\ spc = "creating"
  /\ travelError' = FailedToSaveTrip
  /\ travelSubmitting' = FALSE
  /\ spc' = "idle"
  /\ UNCHANGED <<formData, showForm, trips, travelLoading, tripLoad, tripCalls>>
  /\ UNCHANGED <<parseVars, formatVars, totalsVars, concurrentVars, workoutVars, dietVars, authVars, fetchVars, saveVars, accessVars>>

\* getUpcomingTrips resolves in the loadTrips that handleSubmit awaits; the
\* handler's finally then clears submitting.  The trips it resolves with
\* stand for the rows createTrip was called with.
TripReloadResolves ==
  /\ spc = "reloading"
  /\ trips' = tripCalls
  /\ travelLoading' = FALSE
  /\ travelSubmitting' = FALSE
  /\ spc' = "idle"
  /\ UNCHANGED <<formData, showForm, travelError, tripLoad, tripCalls>>
  /\ UNCHANGED <<parseVars, formatVars, totalsVars, concurrentVars, workoutVars, dietVars, authVars, fetchVars, saveVars, accessVars>>

\* getUpcomingTrips rejects in the loadTrips that handleSubmit awaits:
\* loadTrips catches it and sets its own error.
TripReloadRejects ==
  /\ spc = "reloading"
  /\ travelError' = FailedToLoadTrips
  /\ travelLoading' = FALSE
  /\ travelSubmitting' = FALSE
  /\ spc' = "idle"
  /\ UNCHANGED <<formData, showForm, trips, tripLoad, tripCalls>>
  /\ UNCHANGED <<parseVars, formatVars, totalsVars, concurrentVars, workoutVars, dietVars, authVars, fetchVars, saveVars, accessVars>>

\* The loadTrips started on mount gets the trips.
TripLoadResolves ==
  /\ tripLoad = "loading"
  /\ trips' = tripCalls
  /\ travelLoading' = FALSE
  /\ tripLoad' = "done"
  /\ UNCHANGED <<formData, showForm, travelSubmitting, travelError, spc, tripCalls>>
  /\ UNCHANGED <<parseVars, formatVars, totalsVars, concurrentVars, workoutVars, dietVars, authVars, fetchVars, saveVars, accessVars>>

\* getUpcomingTrips rejects in the loadTrips started on mount.
TripLoadRejects ==
  /\ tripLoad = "loading"
  /\ travelError' = FailedToLoadTrips
  /\ travelLoading' = FALSE
  /\ tripLoad' = "done"
  /\ UNCHANGED <<formData, showForm, trips, travelSubmitting, spc, tripCalls>>
  /\ UNCHANGED <<parseVars, formatVars, totalsVars, concurrentVars, workoutVars, dietVars, authVars, fetchVars, saveVars, accessVars>>

TravelNext ==
  \/ ToggleForm
  \/ HandleInputChange
  \/ HandleSubmit
  \/ CreateTripResolves
  \/ CreateTripRejects
  \/ TripReloadResolves
  \/ TripReloadRejects
  \/ TripLoadResolves
  \/ TripLoadRejects

TravelSpec == TravelInit /\ [][TravelNext]_vars

\* ---------------------------------------------------------------------
\* useAuth
\* ---------------------------------------------------------------------

\* The hook has rendered and its effect has run: getInitialSession awaits
\* getSession and the callback is subscribed.
AuthInit ==
  /\ ParseIdle
  /\ FormatIdle
  /\ TotalsIdle
  /\ ConcurrentIdle
  /\ WorkoutIdle
  /\ DietIdle
  /\ TravelIdle
  /\ FetchIdle
  /\ SaveIdle
  /\ AccessIdle
  /\ authState = InitialAuthState
  /\ mounted = TRUE
  /\ gpc = "pending"
  /\ delivered = <<>>

\* getSession settles and getInitialSession resumes: it sets the state if
\* the effect is still mounted.
GetSessionSettles ==
  /\ gpc = "pending"
  /\ gpc' = "settled"
  /\ \E outcome \in GetSessionOutcomes :
       authState' = IF mounted THEN AfterGetSession(authState, outcome)
                    ELSE authState
  /\ UNCHANGED <<mounted, delivered>>
  /\ UNCHANGED <<parseVars, formatVars, totalsVars, concurrentVars, workoutVars, dietVars, travelVars, fetchVars, saveVars, accessVars>>

\* The callback passed to onAuthStateChange is called with a session (or
\* with none, on sign-out): it sets the state if the effect is still
\* mounted.  A call already under way can arrive after the unsubscribe.
AuthStateChange ==
  /\ Len(delivered) < MaxEvents
  /\ \E session \in Sessions \cup {NoSession} :
       /\ delivered' = Append(delivered, session)
       /\ authState' = IF mounted THEN AuthStateOf(session) ELSE authState
  /\ UNCHANGED <<mounted, gpc>>
  /\ UNCHANGED <<parseVars, formatVars, totalsVars, concurrentVars, workoutVars, dietVars, travelVars, fetchVars, saveVars, accessVars>>

\* The effect's cleanup: mounted is cleared and the subscription ended.
Unmount ==
  /\ mounted
  /\ mounted' = FALSE
  /\ UNCHANGED <<authState, gpc, delivered>>
  /\ UNCHANGED <<parseVars, formatVars, totalsVars, concurrentVars, workoutVars, dietVars, travelVars, fetchVars, saveVars, accessVars>>

AuthNext ==
  \/ GetSessionSettles
  \/ AuthStateChange
  \/ Unmount

AuthSpec == AuthInit /\ [][AuthNext]_vars

\* ---------------------------------------------------------------------
\* useFetch
\* ---------------------------------------------------------------------

\* The hook has rendered with its first parameters and its effect has run:
\* fetchData has set loading and awaits its query.
FetchInit ==
  /\ ParseIdle
  /\ FormatIdle
  /\ TotalsIdle
  /\ ConcurrentIdle
  /\ WorkoutIdle
  /\ DietIdle
  /\ TravelIdle
  /\ AuthIdle
  /\ SaveIdle
  /\ AccessIdle
  /\ fetchState = Loading(InitialFetchState)
  /\ fetchParams = 1
  /\ fetchMounted = TRUE
  /\ requests = <<Request("effect", 1)>>

\* The hook is rendered with other parameters: the cleanup of the previous
\* effect runs, then the new effect, whose fetchData sets loading and
\* issues its query.
ParamsChange ==
  /\ fetchMounted
  /\ fetchParams < MaxParams
  /\ Len(requests) < MaxRequests
  /\ fetchParams' = fetchParams + 1
  /\ requests' = Append(Cancel(requests), Request("effect", fetchParams + 1))
  /\ fetchState' = Loading(fetchState)
  /\ UNCHANGED fetchMounted
  /\ UNCHANGED <<parseVars, formatVars, totalsVars, concurrentVars, workoutVars, dietVars, travelVars, authVars, saveVars, accessVars>>

\* refetch of the last render is called: it sets loading and issues its
\* query with that render's parameters.
Refetch ==
  /\ fetchMounted
  /\ Len(requests) < MaxRequests
  /\ requests' = Append(requests, Request("refetch", fetchParams))
  /\ fetchState' = Loading(fetchState)
  /\ UNCHANGED <<fetchParams, fetchMounted>>
  /\ UNCHANGED <<parseVars, formatVars, totalsVars, concurrentVars, workoutVars, dietVars, travelVars, authVars, saveVars, accessVars>>

\* The query of a request settles.  fetchData sets the state unless its
\* effect has been cleaned up; refetch sets it in any case.  React drops a
\* setState of a hook that is unmounted.
RequestSettles ==
  /\ \E i \in 1..Len(requests) : \E outcome \in Outcomes :
       /\ ~requests[i].settled
       /\ requests' = [requests EXCEPT ![i].settled = TRUE]
       /\ fetchState' =
            IF fetchMounted /\ ~(requests[i].by = "effect" /\ requests[i].isCancelled)
            THEN Settled(requests[i].params, outcome)
            ELSE fetchState
  /\ UNCHANGED <<fetchParams, fetchMounted>>
  /\ UNCHANGED <<parseVars, formatVars, totalsVars, concurrentVars, workoutVars, dietVars, travelVars, authVars, saveVars, accessVars>>

\* The hook is unmounted: the cleanup of the effect runs.
FetchUnmount ==
  /\ fetchMounted
  /\ fetchMounted' = FALSE
  /\ requests' = Cancel(requests)
  /\ UNCHANGED <<fetchState, fetchParams>>
  /\ UNCHANGED <<parseVars, formatVars, totalsVars, concurrentVars, workoutVars, dietVars, travelVars, authVars, saveVars, accessVars>>

FetchNext ==
  \/ ParamsChange
  \/ Refetch
  \/ RequestSettles
  \/ FetchUnmount

FetchSpec == FetchInit /\ [][FetchNext]_vars

\* ---------------------------------------------------------------------
\* saveTodaysWorkout: overlapping calls of one signed-in user on one day
\* ---------------------------------------------------------------------

SaveInit ==
  /\ ParseIdle
  /\ FormatIdle
  /\ TotalsIdle
  /\ ConcurrentIdle
  /\ WorkoutIdle
  /\ DietIdle
  /\ TravelIdle
  /\ AuthIdle
  /\ FetchIdle
  /\ SaveIdle
  /\ AccessIdle

\* saveTodaysWorkout(type, completed) is called and awaits getTodaysWorkout.
SaveCall(i) ==
  /\ saves[i].pc = "idle"
  /\ \E t \in WorkoutTypes, c \in BOOLEAN :
       saves' = [saves EXCEPT ![i] = [pc |-> "checking", type |-> t,
                                      completed |-> c, existingWorkout |-> 0]]
  /\ UNCHANGED workoutVars
  /\ UNCHANGED <<parseVars, formatVars, totalsVars, concurrentVars, dietVars, travelVars, authVars, fetchVars, accessVars>>

\* getTodaysWorkout resolves; the call goes on to updateWorkout or to
\* createWorkout, each of which awaits getUser before its query.
TodaysWorkoutResolves(i) ==
  /\ saves[i].pc = "checking"
  /\ saves' = [saves EXCEPT
                 ![i].existingWorkout = GetTodaysWorkout(workouts),
                 ![i].pc = IF GetTodaysWorkout(workouts) # 0 THEN "updating"
                           ELSE "creating"]
  /\ UNCHANGED workoutVars
  /\ UNCHANGED <<parseVars, formatVars, totalsVars, concurrentVars, dietVars, travelVars, authVars, fetchVars, accessVars>>

\* getTodaysWorkout throws (its query gives an error other than PGRST116):
\* saveTodaysWorkout rejects.
TodaysWorkoutThrows(i) ==
  /\ saves[i].pc = "checking"
  /\ saves' = [saves EXCEPT ![i].pc = "rejected"]
  /\ UNCHANGED workoutVars
  /\ UNCHANGED <<parseVars, formatVars, totalsVars, concurrentVars, dietVars, travelVars, authVars, fetchVars, accessVars>>

\* The update of updateWorkout(existingWorkout.id, { completed, type }) runs.
UpdateRuns(i) ==
  /\ saves[i].pc = "updating"
  /\ workouts' = UpdateWorkout(workouts, saves[i].existingWorkout,
                               saves[i].type, saves[i].completed)
  /\ saves' = [saves EXCEPT ![i].pc = "resolved"]
  /\ UNCHANGED <<signedIn, rpc, recentWorkouts, fetchFailed, recommended>>
  /\ UNCHANGED <<parseVars, formatVars, totalsVars, concurrentVars, dietVars, travelVars, authVars, fetchVars, accessVars>>

\* The insert of createWorkout({ type, completed }) runs.
InsertRuns(i) ==
  /\ saves[i].pc = "creating"
  /\ workouts' = Append(workouts, [type |-> saves[i].type,
                                   completed |-> saves[i].completed])
  /\ saves' = [saves EXCEPT ![i].pc = "resolved"]
  /\ UNCHANGED <<signedIn, rpc, recentWorkouts, fetchFailed, recommended>>
  /\ UNCHANGED <<parseVars, formatVars, totalsVars, concurrentVars, dietVars, travelVars, authVars, fetchVars, accessVars>>

SaveNext ==
  \E i \in 1..MaxSaves :
    \/ SaveCall(i)
    \/ TodaysWorkoutResolves(i)
    \/ TodaysWorkoutThrows(i)
    \/ UpdateRuns(i)
    \/ InsertRuns(i)

SaveSpec == SaveInit /\ [][SaveNext]_vars

\* ---------------------------------------------------------------------
\* The meal data-access functions, called by users and by nobody
\* ---------------------------------------------------------------------

AccessInit ==
  /\ ParseIdle
  /\ FormatIdle
  /\ TotalsIdle
  /\ ConcurrentIdle
  /\ WorkoutIdle
  /\ DietIdle
  /\ TravelIdle
  /\ AuthIdle
  /\ FetchIdle
  /\ SaveIdle
  /\ AccessIdle

AccessUnchanged ==
  UNCHANGED <<parseVars, formatVars, totalsVars, concurrentVars, workoutVars, dietVars, travelVars, authVars, fetchVars, saveVars>>

\* createMeal(meal): throws without user; inserts the row with the
\* caller's user_id, which the insert policy checks.
CreateMeal ==
  /\ Len(mealRows) < MaxMealRows
  /\ \E caller \in Callers, text \in RawTexts, day \in Days :
       IF caller = NoUser
       THEN /\ reply' = Reply("createMeal", caller, {}, TRUE)
            /\ UNCHANGED mealRows
       ELSE \E row \in {[user_id |-> caller, raw_text |-> text, day |-> day]} :
              IF InsertPolicy(caller, row)
              THEN /\ mealRows' = Append(mealRows, row)
                   /\ reply' = Reply("createMeal", caller,
                                     {Len(mealRows) + 1} \cap VisibleTo(caller, mealRows'),
                                     FALSE)
              ELSE /\ reply' = Reply("createMeal", caller, {}, TRUE)
                   /\ UNCHANGED mealRows
  /\ AccessUnchanged

\* getUserMeals(filters): throws without user; the rows with the caller's
\* user_id, from a day on when date_from is given.
GetUserMeals ==
  /\ \E caller \in Callers, date_from \in {0} \cup Days :
       IF caller = NoUser
       THEN reply' = Reply("getUserMeals", caller, {}, TRUE)
       ELSE reply' = Reply("getUserMeals", caller,
                           {id \in VisibleTo(caller, mealRows) :
                              /\ mealRows[id].user_id = caller
                              /\ mealRows[id].day >= date_from},
                           FALSE)
  /\ UNCHANGED mealRows
  /\ AccessUnchanged

\* getMealById(id): the row with the id among those the caller can see;
\* .single() gives an error when there is none, which is thrown.
GetMealById ==
  /\ \E caller \in Callers, id \in 1..MaxMealRows :
       \E found \in {VisibleTo(caller, mealRows) \cap {id}} :
         reply' = Reply("getMealById", caller, found, found = {})
  /\ UNCHANGED mealRows
  /\ AccessUnchanged

\* updateMeal(id, updates): the row with the id is updated if the update
\* policy lets the caller; .select().single() gives an error when no row
\* was updated.
UpdateMeal ==
  /\ \E caller \in Callers, id \in 1..MaxMealRows, text \in RawTexts :
       \E found \in {{i \in VisibleTo(caller, mealRows) \cap {id} :
                        /\ UpdatePolicy(caller, mealRows[i])
                        /\ UpdatePolicy(caller, [mealRows[i] EXCEPT !.raw_text = text])}} :
         /\ mealRows' = [i \in 1..Len(mealRows) |->
                           IF i \in found THEN [mealRows[i] EXCEPT !.raw_text = text]
                           ELSE mealRows[i]]
         /\ reply' = Reply("updateMeal", caller, found, found = {})
  /\ AccessUnchanged

\* deleteMeal(id): the row with the id is deleted if the delete policy lets
\* the caller; deleting no row is no error.
DeleteMeal ==
  /\ \E caller \in Callers, id \in 1..MaxMealRows :
       \E found \in {{i \in VisibleTo(caller, mealRows) \cap {id} :
                        DeletePolicy(caller, mealRows[i])}} :
         /\ mealRows' = [i \in 1..Len(mealRows) |->
                           IF i \in found THEN Deleted ELSE mealRows[i]]
         /\ reply' = Reply("deleteMeal", caller, {}, FALSE)
  /\ AccessUnchanged

\* getDailyStats(date): throws without user; the totals of the rows with
\* the caller's user_id created on the day.
GetDailyStats ==
  /\ \E caller \in Callers, date \in Days :
       IF caller = NoUser
       THEN reply' = Reply("getDailyStats", caller, {}, TRUE)
       ELSE reply' = Reply("getDailyStats", caller,
                           {id \in VisibleTo(caller, mealRows) :
                              /\ mealRows[id].user_id = caller
                              /\ mealRows[id].day = date},
                           FALSE)
  /\ UNCHANGED mealRows
  /\ AccessUnchanged

\* searchMeals(searchText): throws without user; the rows with the
\* caller's user_id whose raw_text contains the text, whatever the case.
SearchMeals ==
  /\ \E caller \in Callers, searchText \in RawTexts :
       IF caller = NoUser
       THEN reply' = Reply("searchMeals", caller, {}, TRUE)
       ELSE reply' = Reply("searchMeals", caller,
                           {id \in VisibleTo(caller, mealRows) :
                              /\ mealRows[id].user_id = caller
                              /\ ILike(mealRows[id].raw_text, searchText)},
                           FALSE)
  /\ UNCHANGED mealRows
  /\ AccessUnchanged

AccessNext ==
  \/ CreateMeal
  \/ GetUserMeals
  \/ GetMealById
  \/ UpdateMeal
  \/ DeleteMeal
  \/ GetDailyStats
  \/ SearchMeals

AccessSpec == AccessInit /\ [][AccessNext]_vars


\* ---------------------------------------------------------------------
\* Properties
\* ---------------------------------------------------------------------

IsSet(x) == x.kind # "null"

IsNonNegativeInteger(x) == x.kind = "num" /\ x.v \in Nat

Matched(desc) == Totals(desc).matchCount > 0

\* The macro validation of parseMeal rescales the macros for desc.
Adjusts(desc) == Matched(desc) /\ NeedsAdjust(Rounded(Totals(desc)))

\* C1: every call of parseMeal, whatever the description, is eventually
\* resolved with an estimate whose five fields are all set, and the promise
\* is never rejected.
C1_AlwaysResolves ==
  /\ [](pc # "rejected")
  /\ (pc = "waiting") ~>
       (/\ pc = "resolved"
        /\ IsSet(result.calories) /\ IsSet(result.protein)
        /\ IsSet(result.carbs) /\ IsSet(result.fat)
        /\ result.confidence > 0)

\* A call with a non-empty description without any lexicon hit has resolved.
C1_Witness ==
  /\ pc = "resolved"
  /\ mealDescription # <<>>
  /\ ~Matched(mealDescription)
  /\ IsSet(result.fat)

\* C2: the calories parseMeal resolves with is a non-negative integer, never
\* NaN, on the no-match path and on the match path.
C2_CaloriesNonNegative ==
  pc = "resolved" => IsNonNegativeInteger(result.calories)

\* A match-path call whose macros were rescaled has resolved.
C2_Witness ==
  /\ pc = "resolved"
  /\ Adjusts(mealDescription)
  /\ result.calories.kind = "num"

\* C3: protein, carbs and fat of every resolved estimate are non-negative
\* integers (never NaN, never infinite).
C3_MacrosNonNegative ==
  pc = "resolved" =>
    /\ IsNonNegativeInteger(result.protein)
    /\ IsNonNegativeInteger(result.carbs)
    /\ IsNonNegativeInteger(result.fat)

\* C4: on the match path the returned macros imply the returned calories
\* within 20%: abs(protein*4 + carbs*4 + fat*9 - calories) <= calories*0.2.
\* A comparison that involves NaN is false.
C4_WithinTolerance ==
  (pc = "resolved" /\ Matched(mealDescription)) =>
    /\ result.protein.kind = "num"
    /\ result.carbs.kind = "num"
    /\ result.fat.kind = "num"
    /\ Abs(CalculatedCals(result) - result.calories.v) * 5 <= result.calories.v

\* The parts of a description the properties speak about.
Lower(desc) == ToLowerCase(desc)

\* The lexicon entries whose key occurs in the lower-cased description.
KeysIn(lowerDesc) ==
  {i \in 1..Len(mockFoodDatabase) : Includes(lowerDesc, mockFoodDatabase[i].food)}

MatchedKeys(desc) == Only({KeysIn(l) : l \in {Lower(desc)}})

\* Characters of the model's alphabet outside ASCII.
NonAscii == {"U+0131", "U+00A0", "U+FEFF"}

IsAscii(s) == \A i \in 1..Len(s) : s[i] \notin NonAscii

\* C5: parseMeal(s), parseMeal(s.toUpperCase()) and parseMeal(s.toLowerCase())
\* are equal in all five fields, for every string s.
C5_CaseInsensitive ==
  pc = "resolved" =>
    /\ result = ParseMeal(ToUpperCase(mealDescription))
    /\ result = ParseMeal(ToLowerCase(mealDescription))

\* C5 as amended: the three results are equal in all five fields for every
\* string s of ASCII characters.
C5_CaseInsensitiveAscii ==
  (pc = "resolved" /\ IsAscii(mealDescription)) =>
    /\ result = ParseMeal(ToUpperCase(mealDescription))
    /\ result = ParseMeal(ToLowerCase(mealDescription))

\* A call with an ASCII description that has an upper-case letter and hits
\* the lexicon has resolved.
C5_Witness ==
  /\ pc = "resolved"
  /\ IsAscii(mealDescription)
  /\ mealDescription # ToLowerCase(mealDescription)
  /\ MatchedKeys(mealDescription) # {}

\* The matched entries, each paired with the multiplier parseMeal gives it.
Multipliers(lowerDesc) ==
  {<<i, Multiplier4(mockFoodDatabase[i].food, lowerDesc)>> : i \in KeysIn(lowerDesc)}

\* The pairs with the multiplier of entry i replaced by multiplier4.
WithMultiplier(pairs, i, multiplier4) ==
  {IF p[1] = i THEN <<i, multiplier4>> ELSE p : p \in pairs}

RECURSIVE SumFrom(_, _, _)
\* The sum, over the paired entries from entry i on, of the entry's field
\* times its multiplier.
SumFrom(i, field, pairs) ==
  IF i > Len(mockFoodDatabase) THEN 0
  ELSE (IF \E p \in pairs : p[1] = i
        THEN mockFoodDatabase[i][field] * (CHOOSE p \in pairs : p[1] = i)[2]
        ELSE 0)
       + SumFrom(i + 1, field, pairs)

RoundedSums(pairs) ==
  [calories |-> Round4(SumFrom(1, "calories", pairs)),
   protein  |-> Round4(SumFrom(1, "protein", pairs)),
   carbs    |-> Round4(SumFrom(1, "carbs", pairs)),
   fat      |-> Round4(SumFrom(1, "fat", pairs))]

\* r has the calories of sums and, unless the macros of sums are more than
\* 20% of the calories off (when parseMeal rescales them), its macros too.
AgreesWith(r, sums) ==
  /\ r.calories = Num(sums.calories)
  /\ Abs(sums.protein * 4 + sums.carbs * 4 + sums.fat * 9 - sums.calories) * 5
       <= sums.calories
     => /\ r.protein = Num(sums.protein)
        /\ r.carbs = Num(sums.carbs)
        /\ r.fat = Num(sums.fat)

Estimate(calories, protein, carbs, fat, confidence10) ==
  [calories |-> Num(calories), protein |-> Num(protein), carbs |-> Num(carbs),
   fat |-> Num(fat), confidence |-> confidence10]

\* C6: on the match path every lexicon key that occurs in the lower-cased
\* description adds its values times its multiplier to the totals exactly
\* once, a key inside another matched key included; calories is the rounded
\* sum, and so are protein, carbs and fat unless the macros are rescaled.
\* 'chicken' gives 165/31/0/4 and 'chicken and rice' gives 370/35/45/4.
C6_EveryKeyContributesOnce ==
  pc = "resolved" =>
    /\ \A pairs \in {Only({Multipliers(l) : l \in {Lower(mealDescription)}})} :
         pairs # {} => AgreesWith(result, RoundedSums(pairs))
    /\ mealDescription = <<"c","h","i","c","k","e","n">> =>
         result = Estimate(165, 31, 0, 4, 5)
    /\ mealDescription = <<"c","h","i","c","k","e","n"," ","a","n","d"," ","r","i","c","e">> =>
         result = Estimate(370, 35, 45, 4, 7)

\* A call whose description hits a key and a longer key that contains it has
\* resolved.
C6_Witness ==
  /\ pc = "resolved"
  /\ \E i, j \in MatchedKeys(mealDescription) :
       /\ i # j
       /\ Includes(mockFoodDatabase[j].food, mockFoodDatabase[i].food)

\* The number of maximal runs of non-whitespace characters of s.
WhitespaceWords(s) ==
  Cardinality({i \in 1..Len(s) :
                 ~IsWhitespace(s[i]) /\ (i = 1 \/ IsWhitespace(s[i - 1]))})

\* The number of U+0020 characters of s.
Spaces(s) == Cardinality({i \in 1..Len(s) : s[i] = " "})

\* r is the generic estimate for a description of the given number of words:
\* calories = min(100 + 50*words, 800), protein = round(calories*0.15/4),
\* carbs = round(calories*0.5/4), fat = round(calories*0.35/9), each rounding
\* stated as "within one half, halves upwards", and confidence 0.3.
IsGenericEstimate(r, words) ==
  LET c == IF 100 + 50 * words < 800 THEN 100 + 50 * words ELSE 800
  IN /\ r.calories = Num(c)
     /\ c <= 800
     /\ r.protein.kind = "num"
     /\ 80 * r.protein.v - 40 <= 3 * c /\ 3 * c < 80 * r.protein.v + 40
     /\ r.carbs.kind = "num"
     /\ 8 * r.carbs.v - 4 <= c /\ c < 8 * r.carbs.v + 4
     /\ r.fat.kind = "num"
     /\ 180 * r.fat.v - 90 <= 7 * c /\ 7 * c < 180 * r.fat.v + 90
     /\ r.confidence = 3

\* C7: with zero lexicon hits and words = the number of whitespace-separated
\* words of the description (1 for the empty string), parseMeal returns the
\* generic estimate for that number of words, not rescaled; calories grows
\* with the number of words up to the cap of 800.
C7_GenericByWords ==
  (pc = "resolved" /\ MatchedKeys(mealDescription) = {}) =>
    IsGenericEstimate(result,
                      IF mealDescription = <<>> THEN 1
                      ELSE WhitespaceWords(mealDescription))

\* C7 as amended: words is the number of pieces split(' ') yields, one more
\* than the number of U+0020 characters of the description.
C7_GenericBySpaces ==
  (pc = "resolved" /\ MatchedKeys(mealDescription) = {}) =>
    IsGenericEstimate(result, 1 + Spaces(mealDescription))

\* A call without lexicon hit and with more words than the cap allows for
\* has resolved.
C7_Witness ==
  /\ pc = "resolved"
  /\ MatchedKeys(mealDescription) = {}
  /\ 100 + 50 * (1 + Spaces(mealDescription)) > 800
  /\ result.calories = Num(800)

\* C8: parseMeal('') takes the no-match path with the empty string counted
\* as one word: calories is 150 and confidence is 0.3.
C8_EmptyInput ==
  (pc = "resolved" /\ mealDescription = <<>>) =>
    /\ result.calories = Num(150)
    /\ result.confidence = 3

\* The call with the empty description has resolved.
C8_Witness ==
  /\ pc = "resolved"
  /\ Len(mealDescription) = 0
  /\ MatchedKeys(mealDescription) = {}

\* a occurs in s, followed by one or more whitespace characters and then b.
StandsBefore(a, b, s) ==
  \E i \in 1..Len(s) :
    /\ OccursAt(s, a, i)
    /\ \E j \in (i + Len(a) + 1)..Len(s) :
         /\ OccursAt(s, b, j)
         /\ \A k \in (i + Len(a))..(j - 1) : IsWhitespace(s[k])

\* The quantity words that stand immediately before or after the food.
AdjacentWords(food, lowerDesc) ==
  {k \in 1..Len(quantities) :
     \/ StandsBefore(quantities[k].quantityWord, food, lowerDesc)
     \/ StandsBefore(food, quantities[k].quantityWord, lowerDesc)}

\* The estimate counts entry i with multiplier4 and the other matched
\* entries as they are paired.
CountsWith(r, pairs, i, multiplier4) ==
  AgreesWith(r, RoundedSums(WithMultiplier(pairs, i, multiplier4)))

LargeSalad == <<"l","a","r","g","e"," ","s","a","l","a","d">>

SaladLarge == <<"s","a","l","a","d"," ","l","a","r","g","e">>

\* C9: a quantity word that stands immediately before or after a matched
\* food, with only whitespace between them, multiplies that food's
\* contribution by its value, in either order; a food without adjacent
\* quantity word counts once.  'large salad' and 'salad large' give 30.
C9_AdjacentWordMultiplies ==
  pc = "resolved" =>
    /\ \A l \in {Lower(mealDescription)} : \A pairs \in {Multipliers(l)} :
         \A p \in pairs :
           \A words \in {AdjacentWords(mockFoodDatabase[p[1]].food, l)} :
             /\ \A k \in words :
                  CountsWith(result, pairs, p[1], quantities[k].value4)
             /\ words = {} => CountsWith(result, pairs, p[1], 4)
    /\ mealDescription \in {LargeSalad, SaladLarge} => result.calories = Num(30)

\* C9 as amended: of the quantity words that stand immediately before or
\* after a matched food, the first in the enumeration order of the quantity
\* lexicon multiplies that food's contribution.
C9_FirstAdjacentWordMultiplies ==
  pc = "resolved" =>
    /\ \A l \in {Lower(mealDescription)} : \A pairs \in {Multipliers(l)} :
         \A p \in pairs :
           \A words \in {AdjacentWords(mockFoodDatabase[p[1]].food, l)} :
             /\ words # {} =>
                  CountsWith(result, pairs, p[1], quantities[MinOf(words)].value4)
             /\ words = {} => CountsWith(result, pairs, p[1], 4)
    /\ mealDescription \in {LargeSalad, SaladLarge} => result.calories = Num(30)

\* The call with 'salad large', the quantity word after the food, has
\* resolved.
C9_Witness ==
  /\ pc = "resolved"
  /\ mealDescription = SaladLarge
  /\ AdjacentWords(<<"s","a","l","a","d">>, mealDescription) # {}

\* C10: confidence is 0.3 when nothing matched and min(0.9, 0.3 + 0.2 * n)
\* for n > 0 distinct matched keys; it lies in [0,1] and is below 0.5 exactly
\* when nothing matched.
C10_Confidence ==
  pc = "resolved" =>
    LET n == Cardinality(MatchedKeys(mealDescription))
    IN /\ n = 0 => result.confidence = 3
       /\ n \in 1..2 => result.confidence = 3 + 2 * n
       /\ n >= 3 => result.confidence = 9
       /\ result.confidence \in 0..10
       /\ result.confidence < 5 <=> n = 0

\* A call whose description hits more keys than the cap of 0.9 allows for
\* has resolved.
C10_Witness ==
  /\ pc = "resolved"
  /\ 3 + 2 * Cardinality(MatchedKeys(mealDescription)) > 9
  /\ result.confidence = 9

\* s begins with t.
StartsWith(s, t) == Len(t) <= Len(s) /\ SubSeq(s, 1, Len(t)) = t

\* C11: formatParsedMeal returns 'Unable to parse meal' exactly when calories
\* is null; for every other calories value, 0 included, the output starts
\* with '<calories> cal'.
C11_UnableIffCaloriesNull ==
  formatted # <<>> =>
    /\ formatted = UnableToParse <=> parsed.calories = Null
    /\ parsed.calories # Null =>
         StartsWith(formatted, NumberToString(parsed.calories) \o CalSuffix)

\* calories is a number other than 0.
CaloriesShown == parsed.calories.kind = "num" /\ parsed.calories.v > 0

\* C12: when calories is shown, the output has the part of every macro that
\* is not null, a macro of exactly 0 included ('0g carbs'), and no part for
\* a null macro.
C12_ZeroMacroIncluded ==
  (formatted # <<>> /\ CaloriesShown) =>
    /\ parsed.protein # Null
         <=> Includes(formatted, NumberToString(parsed.protein) \o ProteinSuffix)
    /\ parsed.carbs # Null
         <=> Includes(formatted, NumberToString(parsed.carbs) \o CarbsSuffix)
    /\ parsed.fat # Null
         <=> Includes(formatted, NumberToString(parsed.fat) \o FatSuffix)

\* The separator ' \u2022 ' (space, bullet, space).
Bullet == <<" ", "U+2022", " ">>

\* The parts for calories and for every macro that is not null, in the order
\* calories, protein, carbs, fat.
NonNullParts(p) ==
  <<NumberToString(p.calories) \o CalSuffix>>
  \o (IF p.protein # Null THEN <<NumberToString(p.protein) \o ProteinSuffix>> ELSE <<>>)
  \o (IF p.carbs # Null THEN <<NumberToString(p.carbs) \o CarbsSuffix>> ELSE <<>>)
  \o (IF p.fat # Null THEN <<NumberToString(p.fat) \o FatSuffix>> ELSE <<>>)

\* C13: when calories is shown, the output is the parts '<n> cal',
\* '<n>g protein', '<n>g carbs', '<n>g fat' of the non-null fields, in this
\* order, joined by ' \u2022 '.
C13_PartsJoinedByBullet ==
  (formatted # <<>> /\ CaloriesShown) =>
    formatted = JoinParts(NonNullParts(parsed), Bullet)

FieldNames == {"calories", "protein", "carbs", "fat"}

\* What a field counts for in a sum: its value when it is a number, 0 when
\* it is null, absent or NaN.
Counted(x) == IF x.kind = "num" THEN x.v ELSE 0

RECURSIVE SumField(_, _, _)
\* The sum of the field over the estimates of ms from element i on.
SumField(ms, name, i) ==
  IF i > Len(ms) THEN 0
  ELSE Counted(Field(ms[i], name)) + SumField(ms, name, i + 1)

\* C14: calculateTotals returns an object with exactly the fields calories,
\* protein, carbs and fat (no confidence), each a number equal to the sum of
\* that field over the array with null and absent fields (and NaN) counted
\* as 0; all four are 0 for the empty array and for an array of estimates
\* without any value.
C14_TotalsAreSums ==
  tpc = "returned" =>
    /\ DOMAIN totals = FieldNames
    /\ \A name \in FieldNames :
         /\ totals[name].kind = "num"
         /\ totals[name] = Num(SumField(meals, name, 1))
    /\ (\A i \in 1..Len(meals) : \A name \in FieldNames :
          Field(meals[i], name) \in {Null, Undefined})
       => totals = [name \in FieldNames |-> Num(0)]

\* calculateTotals has returned for an array of several estimates, one with
\* a confidence and one with a null field.
C14_Witness ==
  /\ tpc = "returned"
  /\ Len(meals) >= 2
  /\ \E i \in 1..Len(meals) : "confidence" \in DOMAIN meals[i]
  /\ \E i \in 1..Len(meals) : Field(meals[i], "protein") = Null
  /\ totals.calories.v > 0

\* The bijections of 1..n.
Bijections(n) ==
  {p \in [1..n -> 1..n] : \A i, j \in 1..n : p[i] = p[j] => i = j}

Permuted(ms, p) == [i \in 1..Len(ms) |-> ms[p[i]]]

\* C15: calculateTotals of every permutation of the array equals
\* calculateTotals of the array, and for every split of the array into xs
\* and ys, calculateTotals([calculateTotals(xs), calculateTotals(ys)]) equals
\* calculateTotals(xs ++ ys); the fields are null, absent, NaN or integers.
C15_CommutativeAssociative ==
  tpc = "returned" =>
    /\ \A p \in Bijections(Len(meals)) :
         CalculateTotals(Permuted(meals, p)) = totals
    /\ \A k \in 0..Len(meals) :
         CalculateTotals(<<CalculateTotals(SubSeq(meals, 1, k)),
                           CalculateTotals(SubSeq(meals, k + 1, Len(meals)))>>)
           = totals

\* calculateTotals has returned for an array of three different estimates.
C15_Witness ==
  /\ tpc = "returned"
  /\ Len(meals) >= 3
  /\ meals[1] # meals[2] /\ meals[2] # meals[3] /\ meals[1] # meals[3]
  /\ totals.fat.v > 0

Successor(t) ==
  CASE t = "push" -> "pull"
    [] t = "pull" -> "cardio"
    [] t = "cardio" -> "push"

\* C17: getRecommendedWorkoutType always returns a type, never rejects: the
\* successor, in the cycle push -> pull -> cardio -> push, of the type of the
\* row of the user created last at the time of the fetch, 'push' when the
\* user has no row, and 'push' when the fetch fails; three successors lead
\* back to the starting type.
C17_RoundRobin ==
  /\ [](\A t \in WorkoutTypes : Successor(Successor(Successor(t))) = t)
  /\ [](rpc = "returned" =>
          /\ recommended \in WorkoutTypes
          /\ fetchFailed => recommended = "push")
  /\ [][(rpc = "fetching" /\ rpc' = "returned" /\ ~fetchFailed') =>
          IF workouts = <<>> THEN recommended' = "push"
          ELSE recommended' = Successor(workouts[Len(workouts)].type)]_vars

\* The recommendation has been returned for a user whose last row is a
\* cardio workout and who has rows of other types before it.
C17_Witness ==
  /\ rpc = "returned"
  /\ ~fetchFailed
  /\ Len(workouts) >= 2
  /\ workouts[Len(workouts)].type = "cardio"
  /\ workouts[1].type = "push"
  /\ recommended = "push"
  /\ recentWorkouts = GetRecentWorkouts(workouts, RecentLimit)

\* C18: a submit of a text that is empty or whitespace only sets the error
\* 'Please enter a meal description', calls neither parseMeal nor createMeal,
\* and leaves the text, the meal list, the table and the submitting flag as
\* they are.
C18_BlankSubmitRejected ==
  [][((SubmitBlank \/ SubmitMeal) /\ WhitespaceWords(mealText) = 0) =>
       /\ error' = EnterDescription
       /\ events' = <<>>
       /\ pc' = "idle" /\ hpc' = "idle"
       /\ UNCHANGED <<mealText, todaysMeals, table, submitting, loading>>]_vars

\* A text of whitespace only has been submitted.
C18_Witness ==
  /\ error = EnterDescription
  /\ mealText = <<" ", "TAB">>
  /\ events = <<>>
  /\ ~submitting
  /\ mountLoad = "done"

\* The calls of a successful submit of text, in their order.
ExpectedCalls(text) ==
  <<ParseMealCalled(text),
    CreateMealCalled([raw_text |-> text,
                      calories |-> ParseMeal(text).calories,
                      protein  |-> ParseMeal(text).protein,
                      carbs    |-> ParseMeal(text).carbs,
                      fat      |-> ParseMeal(text).fat]),
    MealTextCleared,
    LoadTodaysMealsCalled>>

IsPrefix(a, b) == Len(a) <= Len(b) /\ a = SubSeq(b, 1, Len(a))

\* C19: the calls of a submit are a prefix of: parseMeal(entered text);
\* createMeal, once, with raw_text the entered text and calories, protein,
\* carbs and fat of the parse result and no confidence; the clearing of the
\* input; loadTodaysMeals.  createMeal is called only once parseMeal has
\* resolved, and the input is cleared and the meals are reloaded only once
\* createMeal has resolved and the row is in the table.
C19_SubmitOrder ==
  /\ [](events # <<>> => IsPrefix(events, ExpectedCalls(events[1].arg)))
  /\ [](hpc = "parsing" =>
          /\ events = <<ParseMealCalled(mealText)>>
          /\ pc \in {"waiting", "resolved"}
          /\ mealDescription = mealText)
  /\ [](hpc = "saving" => Len(events) = 2 /\ events[1].arg = mealText)
  /\ [](hpc = "reloading" => Len(events) = 4 /\ mealText = <<>>)
  /\ [][(Len(events) = 1 /\ Len(events') > 1) =>
          (pc = "resolved" /\ result = ParseMeal(mealText) /\ Len(events') = 2)]_vars
  /\ [][(Len(events) < 3 /\ Len(events') >= 3) =>
          /\ hpc = "saving" /\ Len(events) = 2
          /\ Len(table') = Len(table) + 1
          /\ table'[Len(table')].raw_text = mealText]_vars

\* A submit has gone through: the four calls were made, the input is empty
\* and the reloaded list begins with the new meal.
C19_Witness ==
  /\ hpc = "idle"
  /\ Len(events) = 4
  /\ ~submitting
  /\ mealText = <<>>
  /\ error = NoError
  /\ todaysMeals # <<>>
  /\ todaysMeals[1].raw_text = events[1].arg

\* C20: when parseMeal or createMeal rejects during a submit, the error is
\* 'Failed to save meal. Please try again.', the text is kept, the meals are
\* not reloaded and submitting is false again; submitting is true exactly
\* while a submit is in flight.
C20_FailedSubmit ==
  /\ [](submitting <=> hpc # "idle")
  /\ [][(hpc \in {"parsing", "saving"} /\ hpc' = "idle") =>
          /\ error' = FailedToSave
          /\ mealText' = mealText /\ ~IsBlank(mealText')
          /\ submitting' = FALSE
          /\ events' = events
          /\ UNCHANGED <<todaysMeals, loading, table>>]_vars

\* A submit has failed at createMeal: the error is shown and the text kept.
C20_Witness ==
  /\ hpc = "idle"
  /\ error = FailedToSave
  /\ Len(events) = 2
  /\ mealText = events[1].arg
  /\ ~submitting

\* A calendar date a is earlier than b.
Earlier(a, b) ==
  \/ a[1] < b[1]
  \/ a[1] = b[1] /\ a[2] < b[2]
  \/ a[1] = b[1] /\ a[2] = b[2] /\ a[3] < b[3]

SomeRequiredEmpty(fd) == \E name \in FormFields : fd[name] = <<>>

EndsEarly(fd) ==
  /\ fd.start_date # <<>>
  /\ fd.end_date # <<>>
  /\ Earlier(fd.end_date, fd.start_date)

\* C21: createTrip is never called with an empty destination, country,
\* city, start_date or end_date, nor with an end_date earlier than the
\* start_date; a submit of such a form sets an error ('End date must be
\* after start date' for the date order) and leaves the form data and the
\* submitting flag as they are.
C21_InvalidFormRejected ==
  /\ [](\A i \in 1..Len(tripCalls) :
          /\ \A name \in FormFields : tripCalls[i][name] # <<>>
          /\ ~Earlier(tripCalls[i].end_date, tripCalls[i].start_date))
  /\ [][(HandleSubmit /\ (SomeRequiredEmpty(formData) \/ EndsEarly(formData))) =>
          /\ travelError' # NoError
          /\ (~SomeRequiredEmpty(formData) => travelError' = DateOrderError)
          /\ UNCHANGED <<formData, travelSubmitting, tripCalls, spc>>]_vars

\* A form whose end date is earlier than its start date has been submitted
\* after an earlier trip was created, and was rejected.
C21_Witness ==
  /\ travelError = DateOrderError
  /\ EndsEarly(formData)
  /\ ~SomeRequiredEmpty(formData)
  /\ ~travelSubmitting
  /\ Len(tripCalls) = 1

\* The user a session belongs to, "null" for no session.
SessionUser(session) ==
  IF session.kind = "session" THEN session.user ELSE "null"

\* C22: the hook starts as {user: null, session: null, loading: true};
\* once getSession has settled for a mounted hook, loading is false; every
\* event delivered to a mounted hook sets session to the event's session and
\* user to that session's user; and user is always the session's user, or
\* null when session is null.
C22_AuthState ==
  /\ []((gpc = "pending" /\ delivered = <<>>) =>
          (authState.user = "null" /\ authState.session = NoSession /\ authState.loading))
  /\ []((gpc = "settled" /\ mounted) => ~authState.loading)
  /\ [][(delivered' # delivered /\ mounted) =>
          /\ authState'.session = delivered'[Len(delivered')]
          /\ authState'.user = SessionUser(delivered'[Len(delivered')])
          /\ ~authState'.loading]_vars
  /\ [](authState.user = SessionUser(authState.session))

\* The second user's session has been delivered to a mounted hook after a
\* sign-out, and getSession has settled.
C22_Witness ==
  /\ mounted
  /\ gpc = "settled"
  /\ Len(delivered) = 2
  /\ delivered[1] = NoSession
  /\ authState.user = "user-2"
  /\ authState.session = delivered[2]

\* Once getSession has settled for a mounted hook to which events have been
\* delivered, the state is that of the last event.
C28_LatestEventKept ==
  []((gpc = "settled" /\ mounted /\ delivered # <<>>) =>
       /\ authState.session = delivered[Len(delivered)]
       /\ authState.user = SessionUser(delivered[Len(delivered)]))

\* After the unmount nothing changes the state.
C28_UnmountedStateFrozen == [][~mounted => authState' = authState]_vars

\* C28: when an auth state change event is delivered before getSession
\* settles, the state after both still is that of the event's session, not
\* of the getSession result; and after the unmount neither a late getSession
\* result nor a later event changes the state.
C28_EventOutlivesGetSession ==
  /\ C28_LatestEventKept
  /\ C28_UnmountedStateFrozen

\* The rounded totals of desc, before the macro validation.
RoundedTotals(desc) == Rounded(Totals(desc))

\* C23: on the match path, when the rounded macros imply 0 calories
\* (protein*4 + carbs*4 + fat*9 = 0, as for 'coffee'), the rescaling is
\* skipped: nothing is divided by zero and protein, carbs and fat are
\* returned as 0.
C23_ZeroImpliedCaloriesSkipped ==
  (/\ pc = "resolved"
   /\ Matched(mealDescription)
   /\ CalculatedCals(RoundedTotals(mealDescription)) = 0) =>
    /\ result.protein = Num(0)
    /\ result.carbs = Num(0)
    /\ result.fat = Num(0)

\* The quantity word q stands in s as a whole whitespace-delimited token
\* immediately before the food.
WholeWordBefore(q, food, s) ==
  \E i \in 1..Len(s) :
    /\ OccursAt(s, q, i)
    /\ (i = 1 \/ IsWhitespace(s[i - 1]))
    /\ \E j \in (i + Len(q) + 1)..Len(s) :
         /\ OccursAt(s, food, j)
         /\ \A k \in (i + Len(q))..(j - 1) : IsWhitespace(s[k])

\* The quantity word q stands in s as a whole whitespace-delimited token
\* immediately after the food.
WholeWordAfter(q, food, s) ==
  \E i \in 1..Len(s) :
    /\ OccursAt(s, food, i)
    /\ \E j \in (i + Len(food) + 1)..Len(s) :
         /\ OccursAt(s, q, j)
         /\ \A k \in (i + Len(food))..(j - 1) : IsWhitespace(s[k])
         /\ (j + Len(q) - 1 = Len(s) \/ IsWhitespace(s[j + Len(q)]))

\* The quantity words that are tokens of the description next to the food.
WholeAdjacentWords(food, lowerDesc) ==
  {k \in 1..Len(quantities) :
     \/ WholeWordBefore(quantities[k].quantityWord, food, lowerDesc)
     \/ WholeWordAfter(quantities[k].quantityWord, food, lowerDesc)}

TwelveChicken == <<"1", "2", " ", "c", "h", "i", "c", "k", "e", "n">>

ChickenTwentyFive == <<"c", "h", "i", "c", "k", "e", "n", " ", "2", "5">>

\* C24: a matched food is multiplied by something other than 1 only when a
\* whole quantity word, a whitespace-delimited token of the description,
\* is immediately next to the food; a quantity word inside a longer token
\* (the '2' of '12 chicken' or of 'chicken 25') or separated from the food
\* by other words leaves the multiplier at 1.
C24_WholeWordsOnly ==
  pc = "resolved" =>
    /\ \A l \in {Lower(mealDescription)} : \A pairs \in {Multipliers(l)} :
         \A p \in pairs :
           WholeAdjacentWords(mockFoodDatabase[p[1]].food, l) = {} =>
             CountsWith(result, pairs, p[1], 4)
    /\ mealDescription \in {TwelveChicken, ChickenTwentyFive} =>
         result.calories = Num(165)

\* The place of each entry of quantities in the order in which the source
\* text of the lexicon lists the words: two, 2, three, 3, four, 4, double,
\* large, small, half.
ListedPlace == <<2, 4, 6, 1, 3, 5, 7, 8, 9, 10>>

\* The word of words that the source text of the lexicon lists first.
FirstListed(words) ==
  CHOOSE k \in words : \A h \in words : ListedPlace[k] <= ListedPlace[h]

\* The word of words that Object.entries enumerates first: the keys that
\* are integers in ascending order (2, 3, 4), then the others as listed.
FirstEnumerated(words) == CHOOSE k \in words : \A h \in words : k <= h

TwoChickenThree ==
  <<"t", "w", "o", " ", "c", "h", "i", "c", "k", "e", "n", " ", "3">>

\* C25: when several quantity words are next to the same matched food, one
\* multiplier is applied, that of the first of them in the order in which
\* the lexicon lists them (two, 2, three, 3, four, 4, double, large, small,
\* half); multipliers are not multiplied together.
C25_FirstListedWordWins ==
  pc = "resolved" =>
    \A l \in {Lower(mealDescription)} : \A pairs \in {Multipliers(l)} :
      \A p \in pairs :
        \A words \in {AdjacentWords(mockFoodDatabase[p[1]].food, l)} :
          Cardinality(words) >= 2 =>
            CountsWith(result, pairs, p[1], quantities[FirstListed(words)].value4)

\* C25 as amended: the one multiplier applied is that of the first adjacent
\* word in the order of Object.entries (2, 3, 4, two, three, four, double,
\* large, small, half).
C25_FirstEnumeratedWordWins ==
  pc = "resolved" =>
    \A l \in {Lower(mealDescription)} : \A pairs \in {Multipliers(l)} :
      \A p \in pairs :
        \A words \in {AdjacentWords(mockFoodDatabase[p[1]].food, l)} :
          Cardinality(words) >= 2 =>
            CountsWith(result, pairs, p[1], quantities[FirstEnumerated(words)].value4)

\* The call with 'two chicken 3' has resolved with three times the chicken:
\* 3 is enumerated before two, which is listed before it.
C25_Witness ==
  /\ pc = "resolved"
  /\ mealDescription = TwoChickenThree
  /\ Cardinality(AdjacentWords(Phrases[1], mealDescription)) = 2
  /\ result.calories = Num(495)

\* The parameters of the request whose result the state holds, 0 for none.
ResultOf(state) ==
  IF state.data.kind # "null" THEN state.data.of ELSE state.error.of

\* C26: the response to a request issued for earlier parameters, or before
\* the unmount, never overwrites the state; once every request has settled
\* the state of a mounted hook holds the result of a request made with the
\* current parameters; data and error are never both non-null.
C26_StaleResponsesDropped ==
  /\ [][\A i \in 1..Len(requests) :
          (/\ ~requests[i].settled
           /\ requests'[i].settled
           /\ (requests[i].params # fetchParams \/ ~fetchMounted)) =>
            fetchState' = fetchState]_vars
  /\ []((fetchMounted /\ \A i \in 1..Len(requests) : requests[i].settled) =>
          /\ ~fetchState.loading
          /\ ResultOf(fetchState) = fetchParams)
  /\ [](fetchState.data.kind = "null" \/ fetchState.error.kind = "null")

\* C27: whatever the order and the overlap of the calls of
\* saveTodaysWorkout of one signed-in user on one day, the user has at most
\* one row for the day: a call inserts a row only when there is none, and
\* otherwise updates the type and the completed flag of the one there is.
C27_AtMostOneRowToday ==
  /\ [](Len(workouts) <= 1)
  /\ [][Len(workouts') > Len(workouts) => workouts = <<>>]_vars
  /\ [][\A i \in 1..MaxSaves :
          (saves[i].pc # "resolved" /\ saves'[i].pc = "resolved" /\ workouts # <<>>) =>
            workouts' = <<[type |-> saves[i].type, completed |-> saves[i].completed]>>]_vars

\* The rows of the table that belong to user.
OwnRows(user, rows) == {id \in 1..Len(rows) : rows[id].user_id = user}

\* C29: a call of a meal data-access function returns, changes and deletes
\* only rows whose user_id is the caller's, and a call without
\* authenticated user returns and changes no row.
C29_OwnRowsOnly ==
  /\ [](reply.rows \subseteq OwnRows(reply.caller, mealRows))
  /\ [](reply.caller = "null" => reply.rows = {})
  /\ [][\A id \in 1..Len(mealRows') :
          (id > Len(mealRows) \/ mealRows'[id] # mealRows[id]) =>
            /\ reply'.caller # "null"
            /\ id <= Len(mealRows) => mealRows[id].user_id = reply'.caller
            /\ mealRows'[id].user_id \in {reply'.caller, "null"}]_vars

\* A user has asked by id for a row of the other user that exists, and got
\* the error instead of the row.
C29_Witness ==
  /\ reply.op = "getMealById"
  /\ reply.threw
  /\ reply.caller = "user-2"
  /\ Len(mealRows) = 2
  /\ mealRows[1].user_id = "user-1"
  /\ mealRows[2].user_id = "user-1"

HalfCoffee == <<"h", "a", "l", "f", " ", "c", "o", "f", "f", "e", "e">>

\* C30: formatParsedMeal(parseMeal(s)) is never 'Unable to parse meal':
\* calories is at least 1 on the match path (the smallest lexicon calories
\* times the smallest multiplier rounds to 1) and at least 150 on the
\* no-match path, and the text begins with the calorie count.
C30_NeverUnableToParse ==
  /\ pc \in {"resolved", "formatted"} =>
       /\ result.calories.kind = "num"
       /\ result.calories.v >= 1
       /\ MatchedKeys(mealDescription) = {} => result.calories.v >= 150
  /\ pc = "formatted" =>
       /\ parsed.calories = result.calories
       /\ formatted # UnableToParse
       /\ StartsWith(formatted, Digits(result.calories.v) \o <<" ", "c", "a", "l">>)

\* The estimate of 'half coffee', whose calories is 1 and whose macros are
\* NaN, has been formatted.
C30_Witness ==
  /\ pc = "formatted"
  /\ mealDescription = HalfCoffee
  /\ result.calories = Num(1)
  /\ formatted = <<"1", " ", "c", "a", "l">>

====
